---- MODULE Spec2Model ----
(***************************************************************************)
(* Model of the plugin registry of hustle-demo (utils/pluginRegistry.ts):  *)
(* a global list of installed plugins and one enabled/disabled map per     *)
(* instance id, both kept in localStorage, with per-instance change        *)
(* listeners.                                                              *)
(***************************************************************************)
EXTENDS Integers, Sequences, FiniteSets, TLC

(* ---------------- bounds of the model ---------------- *)
\* the clock (Date) takes the values 0..MaxClock
MaxClock == 1
\* at most MaxSubs unsubscribe functions are handed out by onChange
MaxSubs == 2
\* at most MaxEvents StorageEvents are queued for this window
MaxEvents == 2
MaxClosures == 2
MaxWritesLeft == 1
MaxClients == 2
MaxPasses == 2

(* ---------------- inputs ---------------- *)
Names == {"echo", "pii"}
Versions == {"1.0.0", "2.0.0"}
\* instance ids; "default" is the default value of every instanceId parameter
Scopes == {"default", "b"}
\* subscriber callbacks, identified by function identity
Callbacks == {"cbA", "cbB"}

(* ---------------- optional values ---------------- *)
\* a value that may be undefined: <<>> is undefined, <<x>> is x
Undefined == <<>>
Some(x) == <<x>>
IsDefined(o) == o # <<>>
Get(o) == o[1]

(* ---------------- storage keys ---------------- *)
PLUGINS_KEY == "hustle-plugins"

\* getEnabledStateKey with the instance id left out of the key
getEnabledStateKey_unscoped(instanceId) == "hustle-plugin-state"

getEnabledStateKey(instanceId) == "hustle-plugin-state-" \o instanceId

Keys == {PLUGINS_KEY} \cup {getEnabledStateKey(s) : s \in Scopes}

(* ---------------- plugin definitions (HustlePlugin) ---------------- *)
\* a function value: its source text and whether it reads a variable of an
\* enclosing scope
Fn(src, closes) == [src |-> src, closes |-> closes]

Tool(n) == [name |-> n, description |-> n, parameters |-> "object"]

\* the plugin definitions handed to register, one per name and version
PluginDef(n, v) ==
  IF n = "echo" /\ v = "1.0.0" THEN
    [name |-> n, version |-> v, description |-> Some("echo"),
     tools |-> Some(<<Tool("echo_tool")>>),
     executors |-> Some([echo_tool |-> Fn("async (a)=>({echoed:a.message})", FALSE)]),
     hooks |-> Undefined]
  ELSE IF n = "echo" /\ v = "2.0.0" THEN
    [name |-> n, version |-> v, description |-> Some("echo"),
     tools |-> Some(<<Tool("echo_tool"), Tool("aux_tool")>>),
     executors |-> Some([echo_tool |-> Fn("async (a)=>({echoed:prefix+a.message})", TRUE)]),
     hooks |-> Some([onRegister |-> Fn("() => console.log('Plugin registered')", FALSE)])]
  ELSE IF n = "pii" /\ v = "1.0.0" THEN
    [name |-> n, version |-> v, description |-> Undefined,
     tools |-> Undefined,
     executors |-> Undefined,
     hooks |-> Some([beforeRequest |-> Fn("(req) => req", FALSE)])]
  ELSE
    [name |-> n, version |-> v, description |-> Undefined,
     tools |-> Some(<<Tool("pii_tool")>>),
     executors |-> Undefined,
     hooks |-> Some(<<>>)]

Plugins == {PluginDef(n, v) : n \in Names, v \in Versions}

(* ---------------- state ---------------- *)
VARIABLES
  localStorage,   \* key -> stored string, or NoItem
  listeners,      \* instance id -> its Set of callbacks, in insertion order
  unsubs,         \* the unsubscribe functions onChange has returned: <<cb, id>>
  now,            \* the value of the clock
  windowDefined,  \* typeof window !== 'undefined'
  lastOp,         \* the last registry call and the events it produced, in order
  unsubCalls,     \* <<cb, id>> -> calls of its unsubscribe function since
                  \* onChange: "never", "once", or "again" for two and more
  facade,         \* instance id -> the usePlugins(id) hook: mounted, plugins state
  events,         \* StorageEvents queued for this window, by key
  input,          \* the argument of a call made on a value of its own
  result,         \* what that call returned
  closures,       \* <<cb, id, n>> -> the function the n-th onChange(cb, id)
                  \* returned: "none" (no such call yet), "held", "called"
  writesLeft,     \* the setItem calls that still fit the storage quota: <<n>>,
                  \* or <<>> while the storage is far from full
  client,         \* HustleProvider's client: id numbers the instances useMemo
                  \* has created, ready is false while it returns null
  registeredPluginsRef,  \* registeredPluginsRef.current: a Set of plugin names
  passes,         \* the registerPlugins() calls suspended at await client.use
  used,           \* <<client id, name>> -> calls of use({name, ..}) on that
                  \* client: "never", "once", or "again" for two and more
  effectDeps      \* the client and enabledPlugins the registration effect last
                  \* ran with, <<>> before its first run

\* the state of HustleProvider
provider == <<client, registeredPluginsRef, passes, used, effectDeps>>

vars == <<localStorage, listeners, unsubs, now, windowDefined, lastOp,
          unsubCalls, facade, events, input, result, closures, writesLeft,
          provider>>

\* a subscriber callback that throws when it is invoked
ThrowingCallbacks == {"cbThrows"}

\* the callback whose subscriptions are followed closure by closure
ClosureCallbacks == {"cbA"}

\* the functions onChange can return: one per call, named by callback,
\* instance id and the number of the call
Closures == ClosureCallbacks \X Scopes \X (1..MaxClosures)

(* ---------------- strings held in storage ---------------- *)
\* getItem of a key that holds nothing
NoItem == [t |-> "null"]

\* JSON.stringify of a value the registry writes (plugin records with their
\* functions already turned into text, or a name -> boolean object)
JSONstringify(v) == [t |-> "json", v |-> v]

\* a string some other writer has put under a key, by its characters
Text(chars) == [t |-> "text", s |-> chars]

\* the JavaScript value null
JSNull == [js |-> "null"]

\* the texts among those that are JSON: what JSON.parse makes of each
JSONTexts == {"null", "{}", "[null]"}

\* JSON.parse throws on text that is not JSON
ParseThrows(s) == s.t = "text" /\ s.s \notin JSONTexts

JSONparse(s) ==
  IF s.t = "json" THEN s.v
  ELSE IF s.s = "null" THEN JSNull
  ELSE IF s.s = "[null]" THEN <<JSNull>>
  ELSE <<>>

\* JSON.parse of the string gives an array
ParsesToArray(s) == s.t = "json" \/ s.s = "[null]"

\* truthiness of what getItem returned: null and the empty string are falsy
Truthy(s) == s.t # "null" /\ s # Text("")

(* ---------------- the call in progress ---------------- *)
\* A registry call is evaluated on a record M: M.ls is localStorage as the
\* call has written it so far, M.log the storage writes and subscriber
\* invocations the call has made, in the order it made them.
Start == [ls |-> localStorage, log |-> <<>>, left |-> writesLeft]

WriteEvent(ev, key) ==
  [ev |-> ev, key |-> key, cb |-> "", sub |-> "", plugins |-> <<>>]

CallbackEvent(cb, instanceId, plugins) ==
  [ev |-> "callback", key |-> "", cb |-> cb, sub |-> instanceId, plugins |-> plugins]

\* an exception thrown inside the call: by the callback cb invoked for
\* instanceId, or by a storage write to key
ThrowEvent(key, cb, instanceId) ==
  [ev |-> "throw", key |-> key, cb |-> cb, sub |-> instanceId, plugins |-> <<>>]

\* M.left is what remains of the storage quota: setItem throws a
\* QuotaExceededError, and writes nothing, when no further write fits.

\* an exception is propagating out of the call: nothing in the registry
\* catches one, so no later statement of the call runs
Raised(M) == M.log # <<>> /\ M.log[Len(M.log)].ev = "throw"

getItem(ls, key) == ls[key]

setItem(M, key, value) ==
  IF Raised(M) THEN M
  ELSE IF M.left = Some(0)
  THEN [M EXCEPT !.log = Append(M.log, ThrowEvent(key, "", ""))]
  ELSE [M EXCEPT !.left = IF IsDefined(@) THEN Some(Get(@) - 1) ELSE @,
                 !.ls = [M.ls EXCEPT ![key] = value],
                 !.log = Append(M.log, WriteEvent("setItem", key))]

removeItem(M, key) ==
  IF Raised(M) THEN M
  ELSE [M EXCEPT !.ls = [M.ls EXCEPT ![key] = NoItem],
                 !.log = Append(M.log, WriteEvent("removeItem", key))]

(* ---------------- serialization ---------------- *)
serializeFunction(fn) == fn.src

\* a tool declaration with the executorCode member serializePluginTools adds
SerializedTool(tool, executorCode) ==
  [name |-> tool.name, description |-> tool.description,
   parameters |-> tool.parameters, executorCode |-> executorCode]

serializePluginTools(tools, executors) ==
  IF ~IsDefined(tools) THEN <<>>
  ELSE [i \in 1..Len(Get(tools)) |->
          LET tool == Get(tools)[i] IN
          SerializedTool(tool,
            IF IsDefined(executors) /\ tool.name \in DOMAIN Get(executors)
            THEN Some(serializeFunction(Get(executors)[tool.name]))
            ELSE Undefined)]

\* the SerializedHooks member that holds the code of a hook
HookCodeKey(h) == h \o "Code"

HookNames == {"onRegister", "beforeRequest", "afterResponse", "onError"}

serializeHooks(hooks) ==
  IF ~IsDefined(hooks) THEN Undefined
  ELSE LET present == DOMAIN Get(hooks) \cap HookNames
           serialized == [k \in {HookCodeKey(h) : h \in present} |->
                            LET h == CHOOSE h \in present : HookCodeKey(h) = k
                            IN serializeFunction(Get(hooks)[h])]
       IN IF DOMAIN serialized # {} THEN Some(serialized) ELSE Undefined

(* ---------------- hydration ---------------- *)
\* source texts that are not a JavaScript expression once wrapped in
\* parentheses: eval throws a SyntaxError on them
InvalidCode == {"this is not valid javascript {{{{"}

\* source texts of functions that read a variable of the scope they were
\* written in
OuterCode == {"async (a)=>({echoed:prefix+a.message})"}

\* the outcome of an evaluation or of a call that throws
Thrown(error) == [threw |-> TRUE, error |-> error]
Threw(v) == "threw" \in DOMAIN v

\* eval(`(${code})`): a SyntaxError for text that is no expression, else the
\* function the text denotes, whose free variables are looked up in the scope
\* of the eval call (the registry module), where a plugin's own are not found
evalParenthesized(code) ==
  IF code \in InvalidCode
  THEN Thrown("SyntaxError")
  ELSE [src |-> code, closes |-> code \in OuterCode, scope |-> "eval"]

\* async () => ({ error: 'Failed to deserialize executor', code })
StandInExecutor(code) ==
  [src |-> "async () => ({ error: 'Failed to deserialize executor', code })",
   closes |-> FALSE, scope |-> "registry", code |-> code]

\* () => {}
NoopHook == [src |-> "() => {}", closes |-> FALSE, scope |-> "registry"]

\* deserializeExecutor without its try/catch
deserializeExecutor_uncaught(code) == evalParenthesized(code)

deserializeExecutor(code) ==
  IF Threw(evalParenthesized(code))
  THEN StandInExecutor(code)
  ELSE evalParenthesized(code)

deserializeHook(code) ==
  IF Threw(evalParenthesized(code))
  THEN NoopHook
  ELSE evalParenthesized(code)

\* what a call of a function value yields: how the call ends, and its value
Outcome(how, of, error, code) ==
  [how |-> how, of |-> of, error |-> error, code |-> code]

\* a call of a function value.  A function of a plugin definition runs in the
\* scope it was written in; one that eval made runs in the registry's, and
\* fails on the first read of a variable it does not find there.
Invoke(fn) ==
  IF "code" \in DOMAIN fn
    THEN Outcome("resolves", "", "Failed to deserialize executor", fn.code)
  ELSE IF fn = NoopHook
    THEN Outcome("returns", "undefined", "", "")
  ELSE IF "scope" \in DOMAIN fn /\ fn.closes
    THEN Outcome("throws", "", "ReferenceError", "")
  ELSE Outcome("returns", fn.src, "", "")

\* truthiness of a code member: present and not the empty string
HasCode(code) == IsDefined(code) /\ Get(code) # ""

\* the executors object hydratePlugin fills: an entry for each tool whose
\* executorCode is truthy (a later tool of the same name overwrites)
ExecutorsOf(tools) ==
  LET withCode == {i \in 1..Len(tools) : HasCode(tools[i].executorCode)}
      last(n) == CHOOSE i \in withCode :
                   /\ tools[i].name = n
                   /\ \A j \in withCode : tools[j].name = n => j <= i
  IN [n \in {tools[i].name : i \in withCode} |->
        deserializeExecutor(Get(tools[last(n)].executorCode))]

\* the hooks object hydratePlugin fills when hooksCode is present
HooksOf(hooksCode) ==
  LET present == {h \in HookNames : /\ HookCodeKey(h) \in DOMAIN hooksCode
                                    /\ hooksCode[HookCodeKey(h)] # ""}
  IN [h \in present |-> deserializeHook(hooksCode[HookCodeKey(h)])]

\* { ...stored, executors, hooks }
Hydrated(stored, executors, hooks) ==
  [f \in DOMAIN stored \cup {"executors", "hooks"} |->
     IF f = "executors" THEN executors
     ELSE IF f = "hooks" THEN hooks
     ELSE stored[f]]

\* an exception thrown while an executor or a hook is reconstituted leaves
\* hydratePlugin
hydratePlugin(stored) ==
  LET executors == ExecutorsOf(stored.tools)
      hooks == IF IsDefined(stored.hooksCode)
               THEN Some(HooksOf(Get(stored.hooksCode))) ELSE Undefined
  IN IF \E n \in DOMAIN executors : Threw(executors[n])
       THEN Thrown("SyntaxError")
     ELSE IF IsDefined(hooks) /\ \E h \in DOMAIN Get(hooks) : Threw(Get(hooks)[h])
       THEN Thrown("SyntaxError")
     ELSE Hydrated(stored,
                   IF DOMAIN executors # {} THEN Some(executors) ELSE Undefined,
                   hooks)

\* the outcome of a call that returns a list
Returned(list) == [value |-> list]

\* plugins.map(hydratePlugin): an exception in one call leaves the map
mapHydratePlugin(plugins) ==
  IF \E i \in 1..Len(plugins) : Threw(hydratePlugin(plugins[i]))
  THEN Thrown("SyntaxError")
  ELSE Returned([i \in 1..Len(plugins) |-> hydratePlugin(plugins[i])])

(* ---------------- loads and saves ---------------- *)
loadInstalledPlugins(ls) ==
  IF ~windowDefined THEN <<>>
  ELSE LET stored == getItem(ls, PLUGINS_KEY) IN
       IF ~Truthy(stored) THEN <<>>
       ELSE IF ParseThrows(stored) THEN <<>>
       ELSE JSONparse(stored)

saveInstalledPlugins(M, plugins) ==
  IF ~windowDefined THEN M
  ELSE setItem(M, PLUGINS_KEY, JSONstringify(plugins))

loadEnabledState(ls, instanceId) ==
  IF ~windowDefined THEN <<>>
  ELSE LET stored == getItem(ls, getEnabledStateKey(instanceId)) IN
       IF ~Truthy(stored) THEN <<>>
       ELSE IF ParseThrows(stored) THEN <<>>
       ELSE JSONparse(stored)

saveEnabledState(M, state, instanceId) ==
  IF ~windowDefined THEN M
  ELSE setItem(M, getEnabledStateKey(instanceId), JSONstringify(state))

\* a stored record with the enabled member of the combined view
WithEnabled(plugin, enabled) ==
  [name |-> plugin.name, version |-> plugin.version,
   description |-> plugin.description, tools |-> plugin.tools,
   hooksCode |-> plugin.hooksCode, installedAt |-> plugin.installedAt,
   enabled |-> enabled]

\* loadFromStorage that lists a plugin only in the scopes that hold an entry
\* for it
loadFromStorage_scopedInstall(ls, instanceId) ==
  LET enabledState == loadEnabledState(ls, instanceId)
      installed == SelectSeq(loadInstalledPlugins(ls),
                             LAMBDA p : p.name \in DOMAIN enabledState)
  IN [i \in 1..Len(installed) |->
        WithEnabled(installed[i], enabledState[installed[i].name])]

\* loadFromStorage with enabledState[plugin.name] ?? false
loadFromStorage_defaultOff(ls, instanceId) ==
  LET installed == loadInstalledPlugins(ls)
      enabledState == loadEnabledState(ls, instanceId)
  IN [i \in 1..Len(installed) |->
        WithEnabled(installed[i],
          IF installed[i].name \in DOMAIN enabledState
          THEN enabledState[installed[i].name] ELSE FALSE)]

loadFromStorage(ls, instanceId) ==
  LET installed == loadInstalledPlugins(ls)
      enabledState == loadEnabledState(ls, instanceId)
  IN [i \in 1..Len(installed) |->
        WithEnabled(installed[i],
          IF installed[i].name \in DOMAIN enabledState
          THEN enabledState[installed[i].name] ELSE TRUE)]

\* loadFromStorage throws a TypeError: installed.map is called on what
\* JSON.parse made of the installed-list string, plugin.name is read of each
\* of its elements, and enabledState[plugin.name] of what JSON.parse made of
\* the scope's string
loadFromStorageThrows(ls, instanceId) ==
  LET installedText == getItem(ls, PLUGINS_KEY)
      stateText == getItem(ls, getEnabledStateKey(instanceId))
      parsedInstalled == /\ windowDefined /\ Truthy(installedText)
                         /\ ~ParseThrows(installedText)
      parsedState == /\ windowDefined /\ Truthy(stateText)
                     /\ ~ParseThrows(stateText)
  IN /\ parsedInstalled
     /\ \/ ~ParsesToArray(installedText)
        \/ /\ ParsesToArray(installedText)
           /\ \E i \in 1..Len(JSONparse(installedText)) :
                \/ JSONparse(installedText)[i] = JSNull
                \/ parsedState /\ JSONparse(stateText) = JSNull

(* ---------------- objects and arrays ---------------- *)
\* state[name] = value on a name -> boolean object
Assign(state, name, value) ==
  [n \in DOMAIN state \cup {name} |-> IF n = name THEN value ELSE state[n]]

\* delete state[name]
Delete(state, name) == [n \in DOMAIN state \ {name} |-> state[n]]

\* Array.findIndex by name, 0 when there is none
findIndex(installed, name) ==
  IF \E i \in 1..Len(installed) : installed[i].name = name
  THEN CHOOSE i \in 1..Len(installed) :
         /\ installed[i].name = name
         /\ \A j \in 1..(i - 1) : installed[j].name # name
  ELSE 0

RECURSIVE filterOut(_, _)
\* Array.filter(p => p.name !== name)
filterOut(installed, name) ==
  IF installed = <<>> THEN <<>>
  ELSE IF Head(installed).name # name
       THEN <<Head(installed)>> \o filterOut(Tail(installed), name)
       ELSE filterOut(Tail(installed), name)

(* ---------------- listeners ---------------- *)
getListeners(instanceId) == listeners[instanceId]

RECURSIVE forEach(_, _, _, _)
\* listeners.forEach(cb => cb(plugins)): the callbacks run in insertion order
forEach(M, cbs, instanceId, plugins) ==
  IF cbs = <<>> \/ Raised(M) THEN M
  ELSE LET invoked == [M EXCEPT !.log = Append(M.log,
                         CallbackEvent(Head(cbs), instanceId, plugins))]
       IN IF Head(cbs) \in ThrowingCallbacks
          THEN [invoked EXCEPT !.log = Append(invoked.log,
                                 ThrowEvent("", Head(cbs), instanceId))]
          ELSE forEach(invoked, Tail(cbs), instanceId, plugins)

\* notifyListeners called as notifyListeners(): the instance id takes its
\* default, 'default'
notifyListeners_default(M, instanceId) ==
  LET plugins == loadFromStorage(M.ls, "default")
  IN forEach(M, getListeners("default"), "default", plugins)

notifyListeners(M, instanceId) ==
  LET plugins == loadFromStorage(M.ls, instanceId)
  IN forEach(M, getListeners(instanceId), instanceId, plugins)

(* ---------------- registry operations ---------------- *)
\* the stored record register builds; installedAt is the clock's reading
StoredRecord(plugin) ==
  [name |-> plugin.name,
   version |-> plugin.version,
   description |-> plugin.description,
   tools |-> serializePluginTools(plugin.tools, plugin.executors),
   hooksCode |-> serializeHooks(plugin.hooks),
   installedAt |-> now]

RECURSIVE SaveEnabledIn(_, _, _, _)
\* the enabled value of a name saved under each of the given instance ids
SaveEnabledIn(M, ids, name, enabled) ==
  IF ids = {} THEN M
  ELSE LET id == CHOOSE id \in ids : TRUE
           M1 == saveEnabledState(M, Assign(loadEnabledState(M.ls, id), name, enabled), id)
       IN SaveEnabledIn(M1, ids \ {id}, name, enabled)

\* register that sets the initial enabled state under every instance id
register_allScopes(M, plugin, enabled, instanceId) ==
  LET installed == loadInstalledPlugins(M.ls)
      existing == findIndex(installed, plugin.name)
      updated == IF existing >= 1
                 THEN [installed EXCEPT ![existing] = StoredRecord(plugin)]
                 ELSE Append(installed, StoredRecord(plugin))
      M1 == saveInstalledPlugins(M, updated)
      M2 == SaveEnabledIn(M1, Scopes, plugin.name, enabled)
  IN notifyListeners(M2, instanceId)

\* register that pushes the record without looking for the name
register_alwaysPush(M, plugin, enabled, instanceId) ==
  LET installed == loadInstalledPlugins(M.ls)
      updated == Append(installed, StoredRecord(plugin))
      M1 == saveInstalledPlugins(M, updated)
      enabledState == loadEnabledState(M1.ls, instanceId)
      M2 == saveEnabledState(M1, Assign(enabledState, plugin.name, enabled), instanceId)
  IN notifyListeners(M2, instanceId)

\* register that keeps the enabled state of a name that already has one
register_keepsState(M, plugin, enabled, instanceId) ==
  LET installed == loadInstalledPlugins(M.ls)
      existing == findIndex(installed, plugin.name)
      updated == IF existing >= 1
                 THEN [installed EXCEPT ![existing] = StoredRecord(plugin)]
                 ELSE Append(installed, StoredRecord(plugin))
      M1 == saveInstalledPlugins(M, updated)
      enabledState == loadEnabledState(M1.ls, instanceId)
      M2 == saveEnabledState(M1,
              IF plugin.name \in DOMAIN enabledState THEN enabledState
              ELSE Assign(enabledState, plugin.name, enabled), instanceId)
  IN notifyListeners(M2, instanceId)

\* register that notifies as soon as the installed list is saved, before the
\* enabled state is
register_notifiesEarly(M, plugin, enabled, instanceId) ==
  LET installed == loadInstalledPlugins(M.ls)
      existing == findIndex(installed, plugin.name)
      updated == IF existing >= 1
                 THEN [installed EXCEPT ![existing] = StoredRecord(plugin)]
                 ELSE Append(installed, StoredRecord(plugin))
      M1 == notifyListeners(saveInstalledPlugins(M, updated), instanceId)
      enabledState == loadEnabledState(M1.ls, instanceId)
  IN saveEnabledState(M1, Assign(enabledState, plugin.name, enabled), instanceId)

\* register that keeps the stored record of a name that is installed
register_keepsPayload(M, plugin, enabled, instanceId) ==
  LET installed == loadInstalledPlugins(M.ls)
      existing == findIndex(installed, plugin.name)
      storedPlugin == StoredRecord(plugin)
      updated == IF existing >= 1
                 THEN installed
                 ELSE Append(installed, storedPlugin)
      M1 == saveInstalledPlugins(M, updated)
      enabledState == loadEnabledState(M1.ls, instanceId)
      M2 == saveEnabledState(M1, Assign(enabledState, plugin.name, enabled), instanceId)
  IN notifyListeners(M2, instanceId)

\* installed.findIndex(p => p.name === name) throws a TypeError: what
\* JSON.parse made of the installed-list string is no array, or an element
\* that is reached is null
findIndexThrows(ls) ==
  LET stored == getItem(ls, PLUGINS_KEY) IN
  /\ windowDefined /\ Truthy(stored) /\ ~ParseThrows(stored)
  /\ \/ ~ParsesToArray(stored)
     \/ \E i \in 1..Len(JSONparse(stored)) : JSONparse(stored)[i] = JSNull

\* enabledState[name] = enabled throws a TypeError: what JSON.parse made of
\* the scope's string is null
assignThrows(ls, instanceId) ==
  LET stored == getItem(ls, getEnabledStateKey(instanceId)) IN
  /\ windowDefined /\ Truthy(stored) /\ ~ParseThrows(stored)
  /\ JSONparse(stored) = JSNull

register(M, plugin, enabled, instanceId) ==
  IF findIndexThrows(M.ls)
  THEN [M EXCEPT !.log = Append(M.log, ThrowEvent(PLUGINS_KEY, "", ""))]
  ELSE
  LET installed == loadInstalledPlugins(M.ls)
      existing == findIndex(installed, plugin.name)
      storedPlugin == StoredRecord(plugin)
      updated == IF existing >= 1
                 THEN [installed EXCEPT ![existing] = storedPlugin]
                 ELSE Append(installed, storedPlugin)
      M1 == saveInstalledPlugins(M, updated)
      enabledState == loadEnabledState(M1.ls, instanceId)
      M2 == saveEnabledState(M1, Assign(enabledState, plugin.name, enabled), instanceId)
  IN IF assignThrows(M.ls, instanceId)
     THEN [M1 EXCEPT !.log = Append(M1.log,
                               ThrowEvent(getEnabledStateKey(instanceId), "", ""))]
     ELSE notifyListeners(M2, instanceId)

\* unregister that deletes the entry for the name from every scope's map
unregister_cleansAll(M, pluginName, instanceId) ==
  LET installed == filterOut(loadInstalledPlugins(M.ls), pluginName)
      M1 == saveInstalledPlugins(M, installed)
      cleaned == [k \in Keys |->
                    IF k = PLUGINS_KEY THEN M1.ls[k]
                    ELSE JSONstringify(Delete(
                           loadEnabledState(M1.ls,
                             CHOOSE s \in Scopes : getEnabledStateKey(s) = k),
                           pluginName))]
  IN notifyListeners([M1 EXCEPT !.ls = cleaned], instanceId)

\* unregister whose filter keeps the named plugin and drops the others
unregister_keepsNamed(M, pluginName, instanceId) ==
  LET installed == SelectSeq(loadInstalledPlugins(M.ls),
                             LAMBDA p : p.name = pluginName)
      M1 == saveInstalledPlugins(M, installed)
      enabledState == loadEnabledState(M1.ls, instanceId)
      M2 == saveEnabledState(M1, Delete(enabledState, pluginName), instanceId)
  IN notifyListeners(M2, instanceId)

unregister(M, pluginName, instanceId) ==
  LET installed == filterOut(loadInstalledPlugins(M.ls), pluginName)
      M1 == saveInstalledPlugins(M, installed)
      enabledState == loadEnabledState(M1.ls, instanceId)
      M2 == saveEnabledState(M1, Delete(enabledState, pluginName), instanceId)
  IN notifyListeners(M2, instanceId)

\* setEnabled that writes a map holding the named entry alone
setEnabled_forgetsOthers(M, pluginName, enabled, instanceId) ==
  LET M1 == saveEnabledState(M, Assign(<<>>, pluginName, enabled), instanceId)
  IN notifyListeners(M1, instanceId)

\* setEnabled that notifies the subscribers before it saves
setEnabled_notifiesFirst(M, pluginName, enabled, instanceId) ==
  LET M0 == notifyListeners(M, instanceId)
      enabledState == loadEnabledState(M0.ls, instanceId)
  IN saveEnabledState(M0, Assign(enabledState, pluginName, enabled), instanceId)

setEnabled(M, pluginName, enabled, instanceId) ==
  LET enabledState == loadEnabledState(M.ls, instanceId)
      M1 == saveEnabledState(M, Assign(enabledState, pluginName, enabled), instanceId)
  IN notifyListeners(M1, instanceId)

isRegistered(ls, pluginName) ==
  \E i \in 1..Len(loadInstalledPlugins(ls)) :
    loadInstalledPlugins(ls)[i].name = pluginName

\* Array.find by name: the first match, Undefined when there is none
getPlugin(ls, pluginName, instanceId) ==
  LET plugins == loadFromStorage(ls, instanceId)
      i == findIndex(plugins, pluginName)
  IN IF i >= 1 THEN Some(plugins[i]) ELSE Undefined

\* getEnabledPlugins that hydrates every listed plugin
getEnabledPlugins_all(ls, instanceId) ==
  mapHydratePlugin(loadFromStorage(ls, instanceId))

getEnabledPlugins(ls, instanceId) ==
  mapHydratePlugin(SelectSeq(loadFromStorage(ls, instanceId), LAMBDA p : p.enabled))

\* clear that removes the installed list as well
clear_everything(M, instanceId) ==
  IF ~windowDefined THEN M
  ELSE notifyListeners(
         removeItem(removeItem(M, PLUGINS_KEY), getEnabledStateKey(instanceId)),
         instanceId)

clear(M, instanceId) ==
  IF ~windowDefined THEN M
  ELSE notifyListeners(removeItem(M, getEnabledStateKey(instanceId)), instanceId)

clearAll(M) ==
  IF ~windowDefined THEN M
  ELSE removeItem(M, PLUGINS_KEY)

(* ---------------- the state machine ---------------- *)
\* usePlugins(id) before it is mounted, and once unmounted
Unmounted == [mounted |-> FALSE, plugins |-> <<>>]

\* the state setter of usePlugins(id), which the hook subscribes under id
setPlugins(instanceId) == "setPlugins-" \o instanceId

\* the hooks' plugins state once the subscribers of a call have run: a mounted
\* hook whose setter was invoked holds the list it was last given
Deliver(f, log) ==
  [s \in Scopes |->
     LET given == SelectSeq(log, LAMBDA e :
                    e.ev = "callback" /\ e.cb = setPlugins(s) /\ e.sub = s)
     IN IF f[s].mounted /\ given # <<>>
        THEN [f[s] EXCEPT !.plugins = given[Len(given)].plugins]
        ELSE f[s]]

\* what lastOp holds for a call: the operation, its arguments, whether the
\* name was installed when the call began, and the events of the call
Call(op, name, enabled, instanceId, M) ==
  [op |-> op, name |-> name, enabled |-> enabled, instanceId |-> instanceId,
   existed |-> ~findIndexThrows(localStorage) /\ isRegistered(localStorage, name),
   log |-> M.log]

Init ==
  /\ localStorage = [k \in Keys |-> NoItem]
  /\ listeners = [s \in Scopes |-> <<>>]
  /\ unsubs = {}
  /\ now = 0
  /\ windowDefined = TRUE
  /\ lastOp = [op |-> "none", name |-> "", enabled |-> FALSE, instanceId |-> "",
               existed |-> FALSE, log |-> <<>>]
  /\ unsubCalls = [pair \in (Callbacks \cup ThrowingCallbacks) \X Scopes |-> "never"]
  /\ facade = [s \in Scopes |-> Unmounted]
  /\ events = <<>>
  /\ input = Undefined
  /\ result = Undefined
  /\ closures = [c \in Closures |-> "none"]
  /\ writesLeft = Undefined
  /\ client = [id |-> 0, ready |-> FALSE]
  /\ registeredPluginsRef = {}
  /\ passes = <<>>
  /\ used = [c \in (1..MaxClients) \X Names |-> "never"]
  /\ effectDeps = Undefined

\* Each action takes the record M its call ends with and stores what M holds.
Register(plugin, enabled, instanceId) ==
  \E M \in {register(Start, plugin, enabled, instanceId)} :
  /\ localStorage' = M.ls
  /\ lastOp' = Call("register", plugin.name, enabled, instanceId, M)
  /\ facade' = Deliver(facade, M.log)
  /\ writesLeft' = M.left
  /\ UNCHANGED <<listeners, unsubs, now, windowDefined, unsubCalls, events,
                 input, result, closures, provider>>

Unregister(pluginName, instanceId) ==
  \E M \in {unregister(Start, pluginName, instanceId)} :
  /\ localStorage' = M.ls
  /\ lastOp' = Call("unregister", pluginName, FALSE, instanceId, M)
  /\ facade' = Deliver(facade, M.log)
  /\ writesLeft' = M.left
  /\ UNCHANGED <<listeners, unsubs, now, windowDefined, unsubCalls, events,
                 input, result, closures, provider>>

SetEnabled(pluginName, enabled, instanceId) ==
  \E M \in {setEnabled(Start, pluginName, enabled, instanceId)} :
  /\ localStorage' = M.ls
  /\ lastOp' = Call("setEnabled", pluginName, enabled, instanceId, M)
  /\ facade' = Deliver(facade, M.log)
  /\ writesLeft' = M.left
  /\ UNCHANGED <<listeners, unsubs, now, windowDefined, unsubCalls, events,
                 input, result, closures, provider>>

Clear(instanceId) ==
  \E M \in {clear(Start, instanceId)} :
  /\ localStorage' = M.ls
  /\ lastOp' = Call("clear", "", FALSE, instanceId, M)
  /\ facade' = Deliver(facade, M.log)
  /\ writesLeft' = M.left
  /\ UNCHANGED <<listeners, unsubs, now, windowDefined, unsubCalls, events,
                 input, result, closures, provider>>

ClearAll ==
  \E M \in {clearAll(Start)} :
  /\ localStorage' = M.ls
  /\ lastOp' = Call("clearAll", "", FALSE, "", M)
  /\ facade' = Deliver(facade, M.log)
  /\ writesLeft' = M.left
  /\ UNCHANGED <<listeners, unsubs, now, windowDefined, unsubCalls, events,
                 input, result, closures, provider>>

\* Set.add written as an array push: a callback already held is added again
SetAdd_append(cbs, cb) == Append(cbs, cb)

\* Set.add: a callback already in the Set keeps its place
SetAdd(cbs, cb) ==
  IF \E i \in 1..Len(cbs) : cbs[i] = cb THEN cbs ELSE Append(cbs, cb)

\* Set.delete that deletes nothing
SetDelete_noop(cbs, cb) == cbs

\* Set.delete written as an array splice at indexOf, which is -1 for an absent
\* callback and then takes the last one
SetDelete_splice(cbs, cb) ==
  IF \E i \in 1..Len(cbs) : cbs[i] = cb
  THEN SelectSeq(cbs, LAMBDA c : c # cb)
  ELSE SubSeq(cbs, 1, Len(cbs) - 1)

\* Set.delete
SetDelete(cbs, cb) == SelectSeq(cbs, LAMBDA c : c # cb)

\* onChange(callback, instanceId); the function it returns is kept in unsubs
OnChange(callback, instanceId) ==
  /\ Cardinality(unsubs \cup {<<callback, instanceId>>}) <= MaxSubs
  /\ listeners' = [listeners EXCEPT
                     ![instanceId] = SetAdd(getListeners(instanceId), callback)]
  /\ unsubs' = unsubs \cup {<<callback, instanceId>>}
  /\ unsubCalls' = [unsubCalls EXCEPT ![<<callback, instanceId>>] = "never"]
  /\ UNCHANGED <<localStorage, now, windowDefined, lastOp, facade, events,
                 input, result, closures, writesLeft, provider>>

\* a call of a function onChange returned: () => listeners.delete(callback)
Unsubscribe(callback, instanceId) ==
  /\ <<callback, instanceId>> \in unsubs
  /\ listeners' = [listeners EXCEPT
                     ![instanceId] = SetDelete(listeners[instanceId], callback)]
  /\ unsubCalls' = [unsubCalls EXCEPT ![<<callback, instanceId>>] =
                       IF @ = "never" THEN "once" ELSE "again"]
  /\ UNCHANGED <<localStorage, unsubs, now, windowDefined, lastOp, facade,
                 events, input, result, closures, writesLeft, provider>>

\* onChange(callback, instanceId), the function it returns kept as a value of
\* its own: the n-th call for the pair returns closure <<callback, instanceId, n>>
OnChangeClosure(callback, instanceId) ==
  \E n \in 1..MaxClosures :
    /\ closures[<<callback, instanceId, n>>] = "none"
    /\ \A m \in 1..(n - 1) : closures[<<callback, instanceId, m>>] # "none"
    /\ listeners' = [listeners EXCEPT
                       ![instanceId] = SetAdd(getListeners(instanceId), callback)]
    /\ closures' = [closures EXCEPT ![<<callback, instanceId, n>>] = "held"]
    /\ UNCHANGED <<localStorage, unsubs, now, windowDefined, lastOp, unsubCalls,
                   facade, events, input, result, writesLeft, provider>>

\* a call of the function the n-th onChange(callback, instanceId) returned:
\* () => listeners.delete(callback)
CallClosure(callback, instanceId, n) ==
  /\ closures[<<callback, instanceId, n>>] # "none"
  /\ listeners' = [listeners EXCEPT
                     ![instanceId] = SetDelete(listeners[instanceId], callback)]
  /\ closures' = [closures EXCEPT ![<<callback, instanceId, n>>] = "called"]
  /\ UNCHANGED <<localStorage, unsubs, now, windowDefined, lastOp, unsubCalls,
                 facade, events, input, result, writesLeft, provider>>

\* the origin's storage fills up (other keys, other pages of the origin):
\* n further setItem calls fit, the one after them exceeds the quota
StorageFills(n) ==
  /\ writesLeft' = Some(n)
  /\ UNCHANGED <<localStorage, listeners, unsubs, now, windowDefined, lastOp,
                 unsubCalls, facade, events, input, result, closures, provider>>

\* time passes between two calls
Tick ==
  /\ now < MaxClock
  /\ now' = now + 1
  /\ UNCHANGED <<localStorage, listeners, unsubs, windowDefined, lastOp,
                 unsubCalls, facade, events, input, result, closures,
                 writesLeft, provider>>

\* the registry calls, on every plugin definition, name and instance id
Next ==
  \/ \E plugin \in Plugins, enabled \in BOOLEAN, instanceId \in Scopes :
       Register(plugin, enabled, instanceId)
  \/ \E pluginName \in Names, instanceId \in Scopes :
       Unregister(pluginName, instanceId)
  \/ \E pluginName \in Names, enabled \in BOOLEAN, instanceId \in Scopes :
       SetEnabled(pluginName, enabled, instanceId)
  \/ \E instanceId \in Scopes : Clear(instanceId)
  \/ ClearAll

Spec == Init /\ [][Next]_vars

(* ---------------- hydratePlugin called on a record of the caller's ------- *)
\* the executorCode members of the records handed to hydratePlugin
ExecutorCodes ==
  {Undefined, Some(""), Some("async (a)=>({echoed:a.message})"),
   Some("async (a)=>({echoed:prefix+a.message})"),
   Some("this is not valid javascript {{{{")}

\* their tools members: no tool, one tool, two tools
ToolLists ==
  {<<>>}
  \cup {<<SerializedTool(Tool("echo_tool"), c)>> : c \in ExecutorCodes}
  \cup {<<SerializedTool(Tool("echo_tool"), c), SerializedTool(Tool("aux_tool"), d)>> :
          c \in ExecutorCodes, d \in ExecutorCodes}

\* their hooksCode members: absent, an object without code, code that
\* evaluates, code that does not
HooksCodes ==
  {Undefined, Some(<<>>),
   Some([onRegisterCode |-> "() => console.log('Plugin registered')",
         beforeRequestCode |-> "(req) => req"]),
   Some([onRegisterCode |-> "this is not valid javascript {{{{",
         beforeRequestCode |-> "(req) => req"])}

\* the StoredPlugin records handed to hydratePlugin
StoredPlugins ==
  {[name |-> "echo", version |-> "1.0.0", description |-> Undefined,
    tools |-> tools, hooksCode |-> hooksCode, installedAt |-> 0,
    enabled |-> enabled] :
     tools \in ToolLists, hooksCode \in HooksCodes, enabled \in BOOLEAN}

\* hydratePlugin(stored), called by a holder of a StoredPlugin record
HydratePlugin(stored) ==
  /\ input' = Some(stored)
  /\ result' = Some(hydratePlugin(stored))
  /\ UNCHANGED <<localStorage, listeners, unsubs, now, windowDefined, lastOp,
                 unsubCalls, facade, events, closures, writesLeft, provider>>

NextHydrate == \E stored \in StoredPlugins : HydratePlugin(stored)

SpecHydrate == Init /\ [][NextHydrate]_vars

(* ---------------- loadFromStorage on strings of any writer ------------- *)
\* what the installed-list key may hold: nothing, a list the registry wrote,
\* or a string of another writer
InstalledStrings ==
  {NoItem, JSONstringify(<<>>),
   JSONstringify(<<StoredRecord(PluginDef("echo", "1.0.0"))>>),
   Text(""), Text("{corrupt"), Text("null"), Text("{}"), Text("[null]")}

\* what the enablement key of a scope may hold
StateStrings ==
  {NoItem, JSONstringify([echo |-> FALSE]),
   Text(""), Text("{corrupt"), Text("null"), Text("{}")}

InitLoad ==
  /\ now = 0
  /\ \E installed \in InstalledStrings, state \in [Scopes -> StateStrings] :
       localStorage =
         [k \in Keys |->
            IF k = PLUGINS_KEY THEN installed
            ELSE state[CHOOSE s \in Scopes : getEnabledStateKey(s) = k]]
  /\ listeners = [s \in Scopes |-> <<>>]
  /\ unsubs = {}
  /\ windowDefined \in BOOLEAN
  /\ lastOp = [op |-> "none", name |-> "", enabled |-> FALSE, instanceId |-> "",
               existed |-> FALSE, log |-> <<>>]
  /\ unsubCalls = [pair \in (Callbacks \cup ThrowingCallbacks) \X Scopes |-> "never"]
  /\ facade = [s \in Scopes |-> Unmounted]
  /\ events = <<>>
  /\ input = Undefined
  /\ result = Undefined
  /\ closures = [c \in Closures |-> "none"]
  /\ writesLeft = Undefined
  /\ client = [id |-> 0, ready |-> FALSE]
  /\ registeredPluginsRef = {}
  /\ passes = <<>>
  /\ used = [c \in (1..MaxClients) \X Names |-> "never"]
  /\ effectDeps = Undefined

\* loadFromStorage(instanceId), called on whatever the keys hold
LoadFromStorage(instanceId) ==
  /\ input' = Some(instanceId)
  /\ result' = Some(IF loadFromStorageThrows(localStorage, instanceId)
                    THEN Thrown("TypeError")
                    ELSE Returned(loadFromStorage(localStorage, instanceId)))
  /\ UNCHANGED <<localStorage, listeners, unsubs, now, windowDefined, lastOp,
                 unsubCalls, facade, events, closures, writesLeft, provider>>

NextLoad == \E instanceId \in Scopes : LoadFromStorage(instanceId)

SpecLoad == InitLoad /\ [][NextLoad]_vars

(* ---------------- register on whatever the keys hold ---------------- *)
LoadNames == {"echo", "pii"}

NextLoadRegister ==
  \E pluginName \in LoadNames, enabled \in BOOLEAN, instanceId \in Scopes :
    Register(PluginDef(pluginName, "1.0.0"), enabled, instanceId)

SpecLoadRegister == InitLoad /\ [][NextLoadRegister]_vars

(* ---------------- register, then getPlugin and hydratePlugin ------------ *)
\* hydratePlugin(getPlugin(name, instanceId)) for an installed name
GetAndHydrate(pluginName, instanceId) ==
  /\ IsDefined(getPlugin(localStorage, pluginName, instanceId))
  /\ input' = getPlugin(localStorage, pluginName, instanceId)
  /\ result' = Some(hydratePlugin(Get(getPlugin(localStorage, pluginName, instanceId))))
  /\ UNCHANGED <<localStorage, listeners, unsubs, now, windowDefined, lastOp,
                 unsubCalls, facade, events, closures, writesLeft, provider>>

NextRoundTrip ==
  \/ \E plugin \in Plugins, enabled \in BOOLEAN :
       Register(plugin, enabled, "default")
  \/ \E pluginName \in Names, instanceId \in Scopes :
       GetAndHydrate(pluginName, instanceId)

SpecRoundTrip == Init /\ [][NextRoundTrip]_vars

\* the registry calls, with time passing between them
NextClock ==
  \/ Next
  \/ Tick

SpecClock == Init /\ [][NextClock]_vars

\* the registry calls on one plugin name, with subscribers coming and going
NotifyNames == {"echo"}

NextNotify ==
  \/ \E pluginName \in NotifyNames, version \in Versions,
        enabled \in BOOLEAN, instanceId \in Scopes :
       Register(PluginDef(pluginName, version), enabled, instanceId)
  \/ \E pluginName \in NotifyNames, instanceId \in Scopes :
       Unregister(pluginName, instanceId)
  \/ \E pluginName \in NotifyNames, enabled \in BOOLEAN, instanceId \in Scopes :
       SetEnabled(pluginName, enabled, instanceId)
  \/ \E instanceId \in Scopes : Clear(instanceId)
  \/ ClearAll
  \/ \E callback \in Callbacks, instanceId \in Scopes :
       OnChange(callback, instanceId)
  \/ \E callback \in Callbacks, instanceId \in Scopes :
       Unsubscribe(callback, instanceId)

SpecNotify == Init /\ [][NextNotify]_vars

(* ---------------- storage writes that exceed the quota ---------------- *)
NextQuota ==
  \/ \E pluginName \in NotifyNames, version \in Versions,
        enabled \in BOOLEAN, instanceId \in Scopes :
       Register(PluginDef(pluginName, version), enabled, instanceId)
  \/ \E pluginName \in NotifyNames, instanceId \in Scopes :
       Unregister(pluginName, instanceId)
  \/ \E pluginName \in NotifyNames, enabled \in BOOLEAN, instanceId \in Scopes :
       SetEnabled(pluginName, enabled, instanceId)
  \/ \E n \in 0..MaxWritesLeft : StorageFills(n)

SpecQuota == Init /\ [][NextQuota]_vars

(* ---------------- subscribers that throw ---------------- *)
ThrowSubscribers == {"cbA"} \cup ThrowingCallbacks

NextThrow ==
  \/ \E pluginName \in NotifyNames, enabled \in BOOLEAN, instanceId \in Scopes :
       Register(PluginDef(pluginName, "1.0.0"), enabled, instanceId)
  \/ \E pluginName \in NotifyNames, instanceId \in Scopes :
       Unregister(pluginName, instanceId)
  \/ \E pluginName \in NotifyNames, enabled \in BOOLEAN, instanceId \in Scopes :
       SetEnabled(pluginName, enabled, instanceId)
  \/ \E instanceId \in Scopes : Clear(instanceId)
  \/ \E callback \in ThrowSubscribers, instanceId \in Scopes :
       OnChange(callback, instanceId)

SpecThrow == Init /\ [][NextThrow]_vars

(* ---------------- subscriptions, closure by closure ---------------- *)
NextClosures ==
  \/ \E pluginName \in NotifyNames, enabled \in BOOLEAN, instanceId \in Scopes :
       SetEnabled(pluginName, enabled, instanceId)
  \/ \E callback \in ClosureCallbacks, instanceId \in Scopes :
       OnChangeClosure(callback, instanceId)
  \/ \E callback \in ClosureCallbacks, instanceId \in Scopes,
        n \in 1..MaxClosures :
       CallClosure(callback, instanceId, n)

SpecClosures == Init /\ [][NextClosures]_vars

(* ---------------- the usePlugins hook ---------------- *)
\* the key the hook's storage listener compares e.key with
getStorageKey(instanceId) == "hustle-plugins-" \o instanceId

\* the effect of usePlugins(id) on mount: the plugins state is set to
\* loadFromStorage(id) and setPlugins is subscribed under id
Mount(instanceId) ==
  /\ ~facade[instanceId].mounted
  /\ facade' = [facade EXCEPT ![instanceId] =
                  [mounted |-> TRUE,
                   plugins |-> loadFromStorage(localStorage, instanceId)]]
  /\ listeners' = [listeners EXCEPT
                     ![instanceId] = SetAdd(getListeners(instanceId),
                                            setPlugins(instanceId))]
  /\ UNCHANGED <<localStorage, unsubs, now, windowDefined, lastOp, unsubCalls,
                 events, input, result, closures, writesLeft, provider>>

\* the cleanup of the effect: unsubscribe() and removeEventListener
Unmount(instanceId) ==
  /\ facade[instanceId].mounted
  /\ facade' = [facade EXCEPT ![instanceId] = Unmounted]
  /\ listeners' = [listeners EXCEPT
                     ![instanceId] = SetDelete(listeners[instanceId],
                                               setPlugins(instanceId))]
  /\ UNCHANGED <<localStorage, unsubs, now, windowDefined, lastOp, unsubCalls,
                 events, input, result, closures, writesLeft, provider>>

\* the StorageEvents a call made in another tab raises in this one: one for
\* each key whose value the call changed, in the order the call wrote them
Changed(ls, instanceId) ==
  SelectSeq(<<PLUGINS_KEY, getEnabledStateKey(instanceId)>>,
            LAMBDA k : ls[k] # localStorage[k])

\* A registry call made in another tab on the same localStorage: this tab
\* sees the writes and is sent the StorageEvents, and none of its subscribers
\* is called.
OtherTabRegister(plugin, enabled, instanceId) ==
  \E M \in {register(Start, plugin, enabled, instanceId)} :
  /\ Len(events) + Len(Changed(M.ls, instanceId)) <= MaxEvents
  /\ localStorage' = M.ls
  /\ events' = events \o Changed(M.ls, instanceId)
  /\ writesLeft' = M.left
  /\ UNCHANGED <<listeners, unsubs, now, windowDefined, lastOp, unsubCalls,
                 facade, input, result, closures, provider>>

OtherTabUnregister(pluginName, instanceId) ==
  \E M \in {unregister(Start, pluginName, instanceId)} :
  /\ Len(events) + Len(Changed(M.ls, instanceId)) <= MaxEvents
  /\ localStorage' = M.ls
  /\ events' = events \o Changed(M.ls, instanceId)
  /\ writesLeft' = M.left
  /\ UNCHANGED <<listeners, unsubs, now, windowDefined, lastOp, unsubCalls,
                 facade, input, result, closures, provider>>

OtherTabSetEnabled(pluginName, enabled, instanceId) ==
  \E M \in {setEnabled(Start, pluginName, enabled, instanceId)} :
  /\ Len(events) + Len(Changed(M.ls, instanceId)) <= MaxEvents
  /\ localStorage' = M.ls
  /\ events' = events \o Changed(M.ls, instanceId)
  /\ writesLeft' = M.left
  /\ UNCHANGED <<listeners, unsubs, now, windowDefined, lastOp, unsubCalls,
                 facade, input, result, closures, provider>>

\* the plugins state of the hooks once handleStorage has run for an event
Handled(key) ==
  [s \in Scopes |->
     IF facade[s].mounted /\ key = getStorageKey(s)
     THEN [facade[s] EXCEPT !.plugins = loadFromStorage(localStorage, s)]
     ELSE facade[s]]

\* the oldest queued StorageEvent is dispatched to the storage listeners of
\* the mounted hooks
HandleStorage ==
  /\ events # <<>>
  /\ facade' = Handled(Head(events))
  /\ events' = Tail(events)
  /\ UNCHANGED <<localStorage, listeners, unsubs, now, windowDefined, lastOp,
                 unsubCalls, input, result, closures, writesLeft, provider>>

\* the hook's isRegistered and isEnabled
facadeIsRegistered(f, name) == \E i \in 1..Len(f.plugins) : f.plugins[i].name = name

facadeIsEnabled(f, name) ==
  \E i \in 1..Len(f.plugins) : f.plugins[i].name = name /\ f.plugins[i].enabled

\* the hook's enabledPlugins
enabledPlugins(f) == mapHydratePlugin(SelectSeq(f.plugins, LAMBDA p : p.enabled))

\* the calls the hooks make on one plugin, in this tab and in another one
FacadePlugin == PluginDef("echo", "1.0.0")

NextFacade ==
  \/ \E instanceId \in Scopes : Mount(instanceId)
  \/ \E instanceId \in Scopes : Unmount(instanceId)
  \/ \E instanceId \in Scopes : Register(FacadePlugin, TRUE, instanceId)
  \/ \E instanceId \in Scopes : Unregister(FacadePlugin.name, instanceId)
  \/ \E enabled \in BOOLEAN, instanceId \in Scopes :
       SetEnabled(FacadePlugin.name, enabled, instanceId)
  \/ \E instanceId \in Scopes : OtherTabRegister(FacadePlugin, TRUE, instanceId)
  \/ \E instanceId \in Scopes : OtherTabUnregister(FacadePlugin.name, instanceId)
  \/ \E enabled \in BOOLEAN, instanceId \in Scopes :
       OtherTabSetEnabled(FacadePlugin.name, enabled, instanceId)
  \/ HandleStorage

SpecFacade == Init /\ [][NextFacade]_vars

\* the registry calls on every plugin, with usePlugins(id) mounted for the
\* instance ids of MountedScopes
(* ---------------- HustleProvider ---------------- *)
\* const { enabledPlugins } = usePlugins(): the hook of the default instance,
\* a new array on every render
providerEnabledPlugins == enabledPlugins(facade["default"]).value

\* plugin.executors || plugin.hooks
Passable(plugin) == IsDefined(plugin.executors) \/ IsDefined(plugin.hooks)

\* the loop "for (const plugin of enabledPlugins)" from place i on: the place
\* of the first plugin it passes to client.use, 0 when it ends without one
NextUse(ref, list, i) ==
  LET due == {j \in i..Len(list) : list[j].name \notin ref /\ Passable(list[j])}
  IN IF due = {} THEN 0 ELSE CHOOSE j \in due : \A k \in due : j <= k

\* client.use({name, ...}) is called on client instance id
Use(u, id, name) ==
  [u EXCEPT ![<<id, name>>] = IF @ = "never" THEN "once" ELSE "again"]

\* the dependencies of the registration effect
Deps == [client |-> client, enabledPlugins |-> providerEnabledPlugins]

\* the client useMemo: the auth SDK, the authentication state or the API
\* URL changed while authenticated, and a new HustleIncognitoClient is made
CreateClient ==
  /\ client.id < MaxClients
  /\ client' = [id |-> client.id + 1, ready |-> TRUE]
  /\ UNCHANGED <<localStorage, listeners, unsubs, now, windowDefined, lastOp,
                 unsubCalls, facade, events, input, result, closures, writesLeft,
                 registeredPluginsRef, passes, used, effectDeps>>

\* the client useMemo returns null: authSDK or isAuthenticated became falsy
DropClient ==
  /\ client.ready
  /\ client' = [client EXCEPT !.ready = FALSE]
  /\ UNCHANGED <<localStorage, listeners, unsubs, now, windowDefined, lastOp,
                 unsubCalls, facade, events, input, result, closures, writesLeft,
                 registeredPluginsRef, passes, used, effectDeps>>

\* The registration effect runs after a render. Its dependency enabledPlugins
\* is a new array on every render of the provider, so it runs after each of
\* them. registerPlugins() runs up to its first await client.use and is
\* suspended there, or ends without one.
RunEffect ==
  LET list == providerEnabledPlugins
      enabledNames == {list[i].name : i \in 1..Len(list)}
      kept == registeredPluginsRef \cap enabledNames
      j == NextUse(kept, list, 1)
  IN /\ facade["default"].mounted
     /\ effectDeps' = Some(Deps)
     /\ IF ~client.ready
        THEN UNCHANGED <<registeredPluginsRef, passes, used>>
        ELSE /\ registeredPluginsRef' = kept
             /\ IF j = 0
                THEN UNCHANGED <<passes, used>>
                ELSE /\ Len(passes) < MaxPasses
                     /\ passes' = Append(passes, [client |-> client.id,
                                                   enabledPlugins |-> list,
                                                   at |-> j])
                     /\ used' = Use(used, client.id, list[j].name)
     /\ UNCHANGED <<localStorage, listeners, unsubs, now, windowDefined, lastOp,
                    unsubCalls, facade, events, input, result, closures,
                    writesLeft, client>>

\* passes without the k-th one
Without(ps, k) == SubSeq(ps, 1, k - 1) \o SubSeq(ps, k + 1, Len(ps))

\* the loop of the k-th suspended pass goes on with ref as the Set of names:
\* to its next await client.use, or to its end
Continue(k, ref) ==
  LET pass == passes[k]
      j == NextUse(ref, pass.enabledPlugins, pass.at + 1)
  IN /\ registeredPluginsRef' = ref
     /\ IF j = 0
        THEN passes' = Without(passes, k) /\ used' = used
        ELSE /\ passes' = [passes EXCEPT ![k].at = j]
             /\ used' = Use(used, pass.client, pass.enabledPlugins[j].name)

\* the promise of the client.use the k-th pass awaits is fulfilled:
\* registeredPluginsRef.current.add(plugin.name), then the loop goes on
UseResolves(k) ==
  /\ k \in 1..Len(passes)
  /\ Continue(k, registeredPluginsRef
                   \cup {passes[k].enabledPlugins[passes[k].at].name})
  /\ UNCHANGED <<localStorage, listeners, unsubs, now, windowDefined, lastOp,
                 unsubCalls, facade, events, input, result, closures, writesLeft,
                 client, effectDeps>>

\* the promise is rejected: the catch logs, the name is not added
UseRejects(k) ==
  /\ k \in 1..Len(passes)
  /\ Continue(k, registeredPluginsRef)
  /\ UNCHANGED <<localStorage, listeners, unsubs, now, windowDefined, lastOp,
                 unsubCalls, facade, events, input, result, closures, writesLeft,
                 client, effectDeps>>

\* the plugins the host installs: echo has an executor, pii 2.0.0 has
\* neither an executor nor a hook
ProviderPlugins == {PluginDef("echo", "1.0.0"), PluginDef("pii", "2.0.0")}

NextProvider ==
  \/ Mount("default")
  \/ \E plugin \in ProviderPlugins : Register(plugin, TRUE, "default")
  \/ CreateClient
  \/ DropClient
  \/ RunEffect
  \/ \E k \in 1..MaxPasses : UseResolves(k)
  \/ \E k \in 1..MaxPasses : UseRejects(k)

SpecProvider == Init /\ [][NextProvider]_vars

MountedScopes == {"default"}

NextEnabled ==
  \/ Next
  \/ \E instanceId \in MountedScopes : Mount(instanceId)
  \/ \E instanceId \in MountedScopes : Unmount(instanceId)

SpecEnabled == Init /\ [][NextEnabled]_vars

(* ---------------- what the claims speak of ---------------- *)
\* the names of a list of plugins, in order
NamesOf(plugins) == [i \in 1..Len(plugins) |-> plugins[i].name]

\* the enabled value a list reports for a name: <<>> when the name is not listed
EnabledOf(plugins, name) ==
  IF findIndex(plugins, name) >= 1
  THEN Some(plugins[findIndex(plugins, name)].enabled) ELSE Undefined

\* the explicit entry the stored enablement map of a scope holds for a name
EntryOf(ls, instanceId, name) ==
  LET stored == ls[getEnabledStateKey(instanceId)] IN
  IF stored.t = "json" /\ name \in DOMAIN stored.v
  THEN Some(stored.v[name]) ELSE Undefined

\* the callbacks a call has invoked, in order
RECURSIVE Invoked(_)
Invoked(log) ==
  IF log = <<>> THEN <<>>
  ELSE IF Head(log).ev = "callback"
       THEN <<Head(log).cb>> \o Invoked(Tail(log))
       ELSE Invoked(Tail(log))

\* A step of the behaviour that is the given call.  Each is the action of the
\* same name; what the action implies of lastOp' is stated first.
RegisterStep(plugin, enabled, instanceId) ==
  /\ lastOp'.op = "register" /\ lastOp'.name = plugin.name
  /\ lastOp'.instanceId = instanceId /\ lastOp'.enabled = enabled
  /\ Register(plugin, enabled, instanceId)

UnregisterStep(pluginName, instanceId) ==
  /\ lastOp'.op = "unregister" /\ lastOp'.name = pluginName
  /\ lastOp'.instanceId = instanceId
  /\ Unregister(pluginName, instanceId)

SetEnabledStep(pluginName, enabled, instanceId) ==
  /\ lastOp'.op = "setEnabled" /\ lastOp'.name = pluginName
  /\ lastOp'.instanceId = instanceId /\ lastOp'.enabled = enabled
  /\ SetEnabled(pluginName, enabled, instanceId)

ClearStep(instanceId) ==
  /\ lastOp'.op = "clear" /\ lastOp'.instanceId = instanceId
  /\ Clear(instanceId)

(* ---------------- C1 ---------------- *)
\* C1: setEnabled(name, v, B) writes only scope B's enablement key: every
\* other key is left as it was, and for every scope A # B the list
\* loadFromStorage(A) is the same before and after the call.
C1_ScopeIsolation ==
  [][\A pluginName \in Names, enabled \in BOOLEAN, B \in Scopes :
       SetEnabledStep(pluginName, enabled, B) =>
         /\ \A k \in Keys \ {getEnabledStateKey(B)} :
              localStorage'[k] = localStorage[k]
         /\ \A A \in Scopes \ {B} :
              loadFromStorage(localStorage', A) = loadFromStorage(localStorage, A)]_vars

\* a plugin installed enabled under "default" and disabled under "b" is
\* enabled in the one list and disabled in the other
C1_Witness ==
  /\ lastOp.op = "setEnabled" /\ lastOp.instanceId = "b" /\ ~lastOp.enabled
  /\ lastOp.existed
  /\ EntryOf(localStorage, "default", lastOp.name) = Some(TRUE)
  /\ EnabledOf(loadFromStorage(localStorage, "default"), lastOp.name) = Some(TRUE)
  /\ EnabledOf(loadFromStorage(localStorage, "b"), lastOp.name) = Some(FALSE)

(* ---------------- C2 ---------------- *)
\* C2: the installed set is the same for every scope: loadFromStorage(A) and
\* loadFromStorage(B) list the same plugin names, in the same order, and they
\* are the names of the records under the global key.
C2_GlobalSharing ==
  \A A \in Scopes :
    /\ NamesOf(loadFromStorage(localStorage, A))
         = NamesOf(loadInstalledPlugins(localStorage))
    /\ \A B \in Scopes :
         NamesOf(loadFromStorage(localStorage, A))
           = NamesOf(loadFromStorage(localStorage, B))

\* a plugin registered under "default" is listed under "b", which holds no
\* entry for it
C2_Witness ==
  /\ lastOp.op = "register" /\ lastOp.instanceId = "default" /\ ~lastOp.existed
  /\ localStorage[getEnabledStateKey("b")] = NoItem
  /\ IsDefined(EnabledOf(loadFromStorage(localStorage, "b"), lastOp.name))
  /\ Len(loadFromStorage(localStorage, "b")) = 2

(* ---------------- C3 ---------------- *)
\* C3: for every scope s and installed plugin p the enabled flag of
\* loadFromStorage(s) is the explicit entry of s's stored map for p when
\* there is one, and true when there is none.
C3_DefaultEnablement ==
  \A s \in Scopes :
    LET plugins == loadFromStorage(localStorage, s) IN
    \A i \in 1..Len(plugins) :
      plugins[i].enabled =
        IF IsDefined(EntryOf(localStorage, s, plugins[i].name))
        THEN Get(EntryOf(localStorage, s, plugins[i].name))
        ELSE TRUE

\* after register(def, true, "default") the plugin is enabled under "b",
\* whose enablement key has never been written
C3_Witness ==
  /\ lastOp.op = "register" /\ lastOp.instanceId = "default" /\ lastOp.enabled
  /\ localStorage[getEnabledStateKey("b")] = NoItem
  /\ EnabledOf(loadFromStorage(localStorage, "b"), lastOp.name) = Some(TRUE)

(* ---------------- C4 ---------------- *)
\* C4: after unregister(name, A) the name is in no scope's list and
\* isRegistered(name) is false, and a name that is not registered becomes
\* registered only by a register call of that name.
C4_UnregisterGlobal ==
  [][/\ \A pluginName \in Names, A \in Scopes :
          UnregisterStep(pluginName, A) =>
            /\ ~isRegistered(localStorage', pluginName)
            /\ \A B \in Scopes :
                 ~IsDefined(EnabledOf(loadFromStorage(localStorage', B), pluginName))
     /\ \A pluginName \in Names :
          (~isRegistered(localStorage, pluginName)
             /\ isRegistered(localStorage', pluginName)) =>
            \E plugin \in Plugins, enabled \in BOOLEAN, s \in Scopes :
              plugin.name = pluginName /\ RegisterStep(plugin, enabled, s)]_vars

\* an installed plugin was unregistered from "default" while "b" held an
\* entry for it, and another plugin stays installed
C4_Witness ==
  /\ lastOp.op = "unregister" /\ lastOp.instanceId = "default" /\ lastOp.existed
  /\ IsDefined(EntryOf(localStorage, "b", lastOp.name))
  /\ ~isRegistered(localStorage, lastOp.name)
  /\ Len(loadFromStorage(localStorage, "b")) = 1

(* ---------------- C5 ---------------- *)
\* C5 as stated: when register(p, e, A) installs a name that was not
\* installed before the call, every scope B # A lists p with enabled = true.
C5_Original ==
  [][\A plugin \in Plugins, enabled \in BOOLEAN, A \in Scopes :
       (RegisterStep(plugin, enabled, A) /\ ~isRegistered(localStorage, plugin.name)) =>
         \A B \in Scopes \ {A} :
           EnabledOf(loadFromStorage(localStorage', B), plugin.name) = Some(TRUE)]_vars

\* C5 amended: when register(p, e, A) installs a name that was not installed
\* before the call, every scope B # A lists p, with enabled = true when B's
\* stored map holds no entry for p and with the value of that entry when it
\* does: an entry left behind in B is not inert.
C5_NewInstallSurfaces ==
  [][\A plugin \in Plugins, enabled \in BOOLEAN, A \in Scopes :
       (RegisterStep(plugin, enabled, A) /\ ~isRegistered(localStorage, plugin.name)) =>
         \A B \in Scopes \ {A} :
           EnabledOf(loadFromStorage(localStorage', B), plugin.name) =
             IF IsDefined(EntryOf(localStorage, B, plugin.name))
             THEN EntryOf(localStorage, B, plugin.name)
             ELSE Some(TRUE)]_vars

\* a name that was not installed has been registered under "default" while
\* "b" held the entry false for it, and "b" lists it disabled
C5_Witness ==
  /\ lastOp.op = "register" /\ lastOp.instanceId = "default" /\ ~lastOp.existed
  /\ EntryOf(localStorage, "b", lastOp.name) = Some(FALSE)
  /\ EnabledOf(loadFromStorage(localStorage, "b"), lastOp.name) = Some(FALSE)

(* ---------------- C6 ---------------- *)
\* C6: clear(s) removes s's enablement key and writes no other key, so the
\* global list and every other scope's map are as before, and
\* loadFromStorage(s) lists the same plugins as before, all enabled.
C6_ClearResetsScope ==
  [][\A s \in Scopes :
       ClearStep(s) =>
         /\ localStorage'[getEnabledStateKey(s)] = NoItem
         /\ \A pluginName \in Names :
              ~IsDefined(EntryOf(localStorage', s, pluginName))
         /\ \A k \in Keys \ {getEnabledStateKey(s)} :
              localStorage'[k] = localStorage[k]
         /\ NamesOf(loadFromStorage(localStorage', s))
              = NamesOf(loadFromStorage(localStorage, s))
         /\ \A i \in 1..Len(loadFromStorage(localStorage', s)) :
              loadFromStorage(localStorage', s)[i].enabled]_vars

\* "default" has been cleared with two plugins installed, both now enabled
\* there, while "b" still holds an entry that disables one of them
C6_Witness ==
  /\ lastOp.op = "clear" /\ lastOp.instanceId = "default"
  /\ Len(loadFromStorage(localStorage, "default")) = 2
  /\ \A i \in 1..2 : loadFromStorage(localStorage, "default")[i].enabled
  /\ \E pluginName \in Names :
       EnabledOf(loadFromStorage(localStorage, "b"), pluginName) = Some(FALSE)

(* ---------------- C7 ---------------- *)
\* at most one record per name in the global installed list
UniqueNames(ls) ==
  \A i, j \in 1..Len(loadInstalledPlugins(ls)) :
    loadInstalledPlugins(ls)[i].name = loadInstalledPlugins(ls)[j].name => i = j

\* C7: the global installed list never holds two records of one name;
\* register of an installed name replaces its record in place (same length,
\* the other records untouched, version, tools and hooks of the new
\* definition) and register of a new name appends exactly one record.
C7_NameIsUniqueKey ==
  [][/\ UniqueNames(localStorage) /\ UniqueNames(localStorage')
     /\ \A plugin \in Plugins, enabled \in BOOLEAN, s \in Scopes :
          RegisterStep(plugin, enabled, s) =>
            LET before == loadInstalledPlugins(localStorage)
                after == loadInstalledPlugins(localStorage')
                at == findIndex(after, plugin.name)
            IN /\ at >= 1
               /\ after[at].version = plugin.version
               /\ after[at].tools = serializePluginTools(plugin.tools, plugin.executors)
               /\ after[at].hooksCode = serializeHooks(plugin.hooks)
               /\ IF isRegistered(localStorage, plugin.name)
                  THEN /\ Len(after) = Len(before)
                       /\ at = findIndex(before, plugin.name)
                       /\ \A i \in 1..Len(before) : i # at => after[i] = before[i]
                  ELSE /\ Len(after) = Len(before) + 1
                       /\ at = Len(after)
                       /\ SubSeq(after, 1, Len(before)) = before]_vars

\* an installed name has been registered again, with another plugin installed
C7_Witness ==
  /\ lastOp.op = "register" /\ lastOp.existed
  /\ Len(loadInstalledPlugins(localStorage)) = 2
  /\ loadInstalledPlugins(localStorage)[1].name = lastOp.name
  /\ loadInstalledPlugins(localStorage)[1].version = "2.0.0"

(* ---------------- C8 ---------------- *)
\* C8: once register(p, e, s) has returned, loadFromStorage(s) and
\* getPlugin(p.name, s) report p with enabled = e and isRegistered(p.name)
\* is true, on first install and on re-registration alike.
C8_RegisterSetsEnabled ==
  [][\A plugin \in Plugins, enabled \in BOOLEAN, s \in Scopes :
       RegisterStep(plugin, enabled, s) =>
         /\ EnabledOf(loadFromStorage(localStorage', s), plugin.name) = Some(enabled)
         /\ IsDefined(getPlugin(localStorage', plugin.name, s))
         /\ Get(getPlugin(localStorage', plugin.name, s)).name = plugin.name
         /\ Get(getPlugin(localStorage', plugin.name, s)).version = plugin.version
         /\ Get(getPlugin(localStorage', plugin.name, s)).enabled = enabled
         /\ isRegistered(localStorage', plugin.name)]_vars

\* an installed plugin has been registered again with enabled = false and is
\* disabled in the calling scope
C8_Witness ==
  /\ lastOp.op = "register" /\ lastOp.existed /\ ~lastOp.enabled
  /\ EnabledOf(loadFromStorage(localStorage, lastOp.instanceId), lastOp.name)
       = Some(FALSE)
  /\ isRegistered(localStorage, lastOp.name)

(* ---------------- C9 ---------------- *)
\* the calls that notify
Notifying == {"register", "unregister", "setEnabled", "clear"}

\* the number of storage writes each call makes
WritesOf(op) == IF op \in {"register", "unregister"} THEN 2 ELSE 1

\* C9: in a call of register, unregister, setEnabled or clear every
\* subscriber callback runs inside the call, after all the storage writes of
\* the call, and the list it is given is loadFromStorage(scope) of the
\* storage the call leaves.
C9_NotifyAfterWrites ==
  lastOp.op \in Notifying =>
    LET log == lastOp.log IN
    /\ Cardinality({i \in DOMAIN log : log[i].ev # "callback"}) = WritesOf(lastOp.op)
    /\ \A i \in DOMAIN log :
         log[i].ev = "callback" =>
           /\ \A j \in DOMAIN log : log[j].ev # "callback" => j < i
           /\ log[i].sub = lastOp.instanceId
           /\ log[i].plugins = loadFromStorage(localStorage, lastOp.instanceId)

\* a register call has invoked two subscribers with a list that holds the
\* registered plugin
C9_Witness ==
  /\ lastOp.op = "register"
  /\ Len(Invoked(lastOp.log)) = 2
  /\ \A i \in DOMAIN lastOp.log :
       lastOp.log[i].ev = "callback" =>
         IsDefined(EnabledOf(lastOp.log[i].plugins, lastOp.name))

(* ---------------- C10 ---------------- *)
\* a step that is a notifying call bound to scope A
NotifyingStep(A) ==
  /\ lastOp'.op \in Notifying /\ lastOp'.instanceId = A
  /\ \/ \E plugin \in Plugins, enabled \in BOOLEAN : RegisterStep(plugin, enabled, A)
     \/ \E pluginName \in Names : UnregisterStep(pluginName, A)
     \/ \E pluginName \in Names, enabled \in BOOLEAN :
          SetEnabledStep(pluginName, enabled, A)
     \/ ClearStep(A)

\* C10: a notifying call bound to scope A invokes the callbacks subscribed
\* under A, each exactly once, and invokes no callback that is subscribed
\* only under another scope.
C10_NotifyScoped ==
  [][\A A \in Scopes :
       NotifyingStep(A) =>
         LET invoked == Invoked(lastOp'.log) IN
         /\ invoked = listeners[A]
         /\ \A i, j \in 1..Len(invoked) : invoked[i] = invoked[j] => i = j
         /\ \A i \in DOMAIN lastOp'.log :
              lastOp'.log[i].ev = "callback" => lastOp'.log[i].sub = A
         /\ \A B \in Scopes \ {A} :
              \A k \in 1..Len(listeners[B]) :
                (\A i \in 1..Len(listeners[A]) : listeners[A][i] # listeners[B][k])
                  => \A i \in 1..Len(invoked) : invoked[i] # listeners[B][k]]_vars

\* a call bound to "default" has invoked cbA, subscribed under "default",
\* and not cbB, subscribed under "b"
C10_Witness ==
  /\ lastOp.op \in Notifying /\ lastOp.instanceId = "default"
  /\ listeners["default"] = <<"cbA">>
  /\ listeners["b"] = <<"cbB">>
  /\ Invoked(lastOp.log) = <<"cbA">>

(* ---------------- C13 ---------------- *)
\* a step that is a call of the unsubscribe function of <<cb, s>>
UnsubscribeStep(callback, instanceId) ==
  /\ unsubCalls'[<<callback, instanceId>>] # "never"
  /\ listeners'[instanceId] = SetDelete(listeners[instanceId], callback)
  /\ Unsubscribe(callback, instanceId)

\* C13: once the function returned by onChange(cb, s) has been called (and cb
\* has not been subscribed under s again since), a register, unregister,
\* setEnabled or clear on scope s does not invoke cb, and it does invoke every
\* callback that is subscribed under s and whose unsubscribe function has not
\* been called.
C13_UnsubscribeStopsDelivery ==
  [][\A s \in Scopes :
       NotifyingStep(s) =>
         \A cb \in Callbacks :
           LET called == \E i \in 1..Len(lastOp'.log) :
                           /\ lastOp'.log[i].ev = "callback"
                           /\ lastOp'.log[i].cb = cb
           IN /\ unsubCalls[<<cb, s>>] # "never" => ~called
              /\ (<<cb, s>> \in unsubs /\ unsubCalls[<<cb, s>>] = "never")
                   => called]_vars

\* cbA and cbB have both been subscribed under "default", cbA's unsubscribe
\* function has been called, and a call on "default" has invoked cbB alone
C13_Witness ==
  /\ lastOp.op \in Notifying /\ lastOp.instanceId = "default"
  /\ unsubCalls[<<"cbA", "default">>] = "once"
  /\ unsubCalls[<<"cbB", "default">>] = "never"
  /\ unsubs = {<<"cbA", "default">>, <<"cbB", "default">>}
  /\ listeners["default"] = <<"cbB">>
  /\ Invoked(lastOp.log) = <<"cbB">>

(* ---------------- C14 ---------------- *)
\* C14: a second or later call of the function returned by onChange(cb, s)
\* (cb not subscribed under s again in between) invokes no callback, makes no
\* registry call, and leaves the listener set of every scope as it was.
C14_UnsubscribeIdempotent ==
  [][\A cb \in Callbacks, s \in Scopes :
       (unsubCalls[<<cb, s>>] # "never" /\ UnsubscribeStep(cb, s)) =>
          /\ listeners' = listeners
          /\ lastOp' = lastOp
          /\ localStorage' = localStorage]_vars

\* cbA's unsubscribe function has been called twice while cbB stays
\* subscribed under the same scope
C14_Witness ==
  /\ unsubCalls[<<"cbA", "default">>] = "again"
  /\ listeners["default"] = <<"cbB">>

(* ---------------- C16 ---------------- *)
\* localStorage once register(plugin, enabled, A) has been called on ls
AfterRegister(ls, plugin, enabled, A) ==
  register([ls |-> ls, log |-> <<>>, left |-> Undefined], plugin, enabled, A).ls

\* a step that is setEnabled or unregister called on scope s for a name that
\* is not installed
MisuseStep(pluginName, s) ==
  /\ ~isRegistered(localStorage, pluginName)
  /\ \/ \E enabled \in BOOLEAN : SetEnabledStep(pluginName, enabled, s)
     \/ UnregisterStep(pluginName, s)

\* C16 as stated: setEnabled or unregister of a name that is not installed
\* leaves every scope's list as it was, and no later read shows an effect of
\* the call: whatever is registered next, every scope's list is what it would
\* have been without the call.
C16_Original ==
  [][\A pluginName \in Names, s \in Scopes :
       MisuseStep(pluginName, s) =>
         /\ \A s2 \in Scopes :
              loadFromStorage(localStorage', s2) = loadFromStorage(localStorage, s2)
         /\ \A plugin \in Plugins, enabled \in BOOLEAN, A \in Scopes, s2 \in Scopes :
              loadFromStorage(AfterRegister(localStorage', plugin, enabled, A), s2)
                = loadFromStorage(AfterRegister(localStorage, plugin, enabled, A), s2)]_vars

\* C16 amended: setEnabled or unregister of a name that is not installed
\* leaves every scope's list and the installed list as they were and the name
\* not installed, and touches no other scope's map and no other name's entry;
\* but setEnabled(name, v, s) stores the entry v for the name in s's map (and
\* unregister deletes one), and that entry decides the name's enabled flag
\* under s once the name is installed from another scope.
C16_MisuseLeavesLists ==
  [][\A pluginName \in Names, s \in Scopes :
       MisuseStep(pluginName, s) =>
         /\ \A s2 \in Scopes :
              loadFromStorage(localStorage', s2) = loadFromStorage(localStorage, s2)
         /\ loadInstalledPlugins(localStorage') = loadInstalledPlugins(localStorage)
         /\ ~isRegistered(localStorage', pluginName)
         /\ \A s2 \in Scopes \ {s} :
              localStorage'[getEnabledStateKey(s2)] = localStorage[getEnabledStateKey(s2)]
         /\ \A other \in Names \ {pluginName} :
              EntryOf(localStorage', s, other) = EntryOf(localStorage, s, other)
         /\ EntryOf(localStorage', s, pluginName) =
              IF lastOp'.op = "setEnabled" THEN Some(lastOp'.enabled) ELSE Undefined
         /\ \A version \in Versions, enabled \in BOOLEAN, A \in Scopes \ {s} :
              EnabledOf(loadFromStorage(
                  AfterRegister(localStorage', PluginDef(pluginName, version), enabled, A),
                  s), pluginName)
                = IF lastOp'.op = "setEnabled" THEN Some(lastOp'.enabled) ELSE Some(TRUE)]_vars

\* setEnabled(echo, false, "b") has been called while echo was not installed
\* and pii was: the lists hold pii alone and b's map holds the entry for echo
C16_Witness ==
  /\ lastOp.op = "setEnabled" /\ lastOp.name = "echo" /\ ~lastOp.existed
  /\ lastOp.instanceId = "b" /\ ~lastOp.enabled
  /\ NamesOf(loadFromStorage(localStorage, "b")) = <<"pii">>
  /\ EntryOf(localStorage, "b", "echo") = Some(FALSE)

(* ---------------- C17 ---------------- *)
\* a function that eval made of the given code
MadeFrom(fn, code) == "code" \notin DOMAIN fn /\ fn # NoopHook /\ fn.src = code

\* a stored plugin all of whose code evaluates
SoundPlugin == WithEnabled(StoredRecord(PluginDef("pii", "1.0.0")), TRUE)

\* C17: hydratePlugin returns for every stored plugin.  A tool whose
\* executorCode does not evaluate gets an executor whose call resolves to
\* {error, code} with the offending code; a hook whose code does not evaluate
\* becomes a function that returns undefined; every other tool and hook gets
\* the function its code denotes, and a plugin hydrated in the same map call
\* is hydrated as it is on its own.
C17_FailSoftHydration ==
  IsDefined(result) =>
    LET stored == Get(input)
        hydrated == Get(result)
        both == mapHydratePlugin(<<stored, SoundPlugin>>)
    IN /\ ~Threw(hydrated)
       /\ \A i \in 1..Len(stored.tools) :
            HasCode(stored.tools[i].executorCode) =>
              LET code == Get(stored.tools[i].executorCode)
                  executor == Get(hydrated.executors)[stored.tools[i].name]
              IN IF code \in InvalidCode
                 THEN Invoke(executor) =
                        Outcome("resolves", "", "Failed to deserialize executor", code)
                 ELSE MadeFrom(executor, code)
       /\ IsDefined(stored.hooksCode) =>
            \A h \in HookNames :
              HookCodeKey(h) \in DOMAIN Get(stored.hooksCode) =>
                LET code == Get(stored.hooksCode)[HookCodeKey(h)]
                    hook == Get(hydrated.hooks)[h]
                IN IF code \in InvalidCode
                   THEN Invoke(hook) = Outcome("returns", "undefined", "", "")
                   ELSE MadeFrom(hook, code)
       /\ ~Threw(both)
       /\ both.value[1] = hydrated
       /\ MadeFrom(Get(both.value[2].hooks)["beforeRequest"], "(req) => req")

\* a plugin has been hydrated whose first tool and onRegister hook hold code
\* that does not evaluate and whose second tool and beforeRequest hook hold
\* code that does
C17_Witness ==
  /\ IsDefined(result) /\ ~Threw(Get(result))
  /\ Len(Get(input).tools) = 2
  /\ Get(input).tools[1].executorCode = Some("this is not valid javascript {{{{")
  /\ Get(input).tools[2].executorCode = Some("async (a)=>({echoed:a.message})")
  /\ IsDefined(Get(input).hooksCode)
  /\ DOMAIN Get(Get(input).hooksCode) = {"onRegisterCode", "beforeRequestCode"}
  /\ Get(Get(input).hooksCode)["onRegisterCode"] \in InvalidCode
  /\ Invoke(Get(Get(result).executors)["echo_tool"]).how = "resolves"
  /\ MadeFrom(Get(Get(result).executors)["aux_tool"], "async (a)=>({echoed:a.message})")

(* ---------------- C18 ---------------- *)
\* the tools of a stored plugin that carry executorCode
Carrying(stored) ==
  {stored.tools[i].name : i \in {j \in 1..Len(stored.tools) :
                                   HasCode(stored.tools[j].executorCode)}}

\* no hook code is present in a stored plugin
NoHookCode(stored) ==
  \/ ~IsDefined(stored.hooksCode)
  \/ \A h \in HookNames :
       \/ HookCodeKey(h) \notin DOMAIN Get(stored.hooksCode)
       \/ Get(stored.hooksCode)[HookCodeKey(h)] = ""

\* C18 as stated: the hydrated plugin has an executor for exactly the tools
\* that carry executorCode, executors undefined (not an empty object) when no
\* tool carries any, and hooks undefined when no hook code is present.
C18_Original ==
  IsDefined(result) =>
    LET stored == Get(input)
        hydrated == Get(result)
    IN /\ Carrying(stored) # {} =>
            /\ IsDefined(hydrated.executors)
            /\ DOMAIN Get(hydrated.executors) = Carrying(stored)
       /\ Carrying(stored) = {} => hydrated.executors = Undefined
       /\ NoHookCode(stored) => hydrated.hooks = Undefined

(* ---------------- C19 ---------------- *)
\* C19 as stated: a definition with at least one executor and one hook,
\* once registered, read back with getPlugin and hydrated, has an executor
\* for every tool that had one and a hook for every hook it had, and a call
\* of each yields what a call of the original yields.
C19_Original ==
  IsDefined(result) =>
    LET hydrated == Get(result)
        definition == PluginDef(hydrated.name, hydrated.version)
    IN (/\ IsDefined(definition.executors) /\ DOMAIN Get(definition.executors) # {}
        /\ IsDefined(definition.hooks) /\ DOMAIN Get(definition.hooks) # {}) =>
         /\ IsDefined(hydrated.executors) /\ IsDefined(hydrated.hooks)
         /\ \A n \in DOMAIN Get(definition.executors) :
              /\ n \in DOMAIN Get(hydrated.executors)
              /\ Invoke(Get(hydrated.executors)[n]) = Invoke(Get(definition.executors)[n])
         /\ \A h \in DOMAIN Get(definition.hooks) :
              /\ h \in DOMAIN Get(hydrated.hooks)
              /\ Invoke(Get(hydrated.hooks)[h]) = Invoke(Get(definition.hooks)[h])

(* ---------------- C11 ---------------- *)
\* the hook's plugins state, and its lookups, agree with the registry
FacadeAgrees(f, ls, s) ==
  /\ f.plugins = loadFromStorage(ls, s)
  /\ \A name \in Names :
       /\ facadeIsRegistered(f, name) = isRegistered(ls, name)
       /\ facadeIsEnabled(f, name)
            = (EnabledOf(loadFromStorage(ls, s), name) = Some(TRUE))

\* C11 as stated: when a register, unregister, setEnabled or clear made in
\* this tab, on whichever scope, changes what loadFromStorage(s) returns,
\* then once the call has returned the plugins state of a mounted
\* usePlugins(s) is loadFromStorage(s) and its lookups agree with the registry.
C11_Original ==
  [][\A A \in Scopes, s \in Scopes :
       (/\ NotifyingStep(A)
        /\ facade[s].mounted
        /\ loadFromStorage(localStorage', s) # loadFromStorage(localStorage, s)) =>
          FacadeAgrees(facade'[s], localStorage', s)]_vars

(* ---------------- C12 ---------------- *)
\* a step in which the oldest queued StorageEvent is dispatched
HandleStorageStep ==
  /\ events # <<>>
  /\ events' = Tail(events)
  /\ HandleStorage

\* C12 as stated: when the StorageEvent of another tab's write to the
\* installed-list key or to scope s's enablement key is dispatched in this
\* tab, a mounted usePlugins(s) re-reads loadFromStorage(s) and holds it.
C12_Original ==
  [][\A s \in Scopes :
       (/\ HandleStorageStep
        /\ facade[s].mounted
        /\ Head(events) \in {PLUGINS_KEY, getEnabledStateKey(s)}) =>
          facade'[s].plugins = loadFromStorage(localStorage', s)]_vars

(* ---------------- C20 ---------------- *)
\* hydrated is the enabled part of list: the plugins of list whose enabled
\* flag is true, each of them once, in the order of list, each as
\* hydratePlugin returns it
EnabledPartOf(hydrated, list) ==
  /\ \A i \in 1..Len(hydrated) :
       \E k \in 1..Len(list) :
         /\ list[k].enabled
         /\ hydrated[i] = hydratePlugin(list[k])
  /\ \A k \in 1..Len(list) :
       list[k].enabled <=> \E i \in 1..Len(hydrated) : hydrated[i].name = list[k].name
  /\ \A i, j \in 1..Len(hydrated) :
       i < j => findIndex(list, hydrated[i].name) < findIndex(list, hydrated[j].name)

\* C20: getEnabledPlugins(s) is the enabled part of loadFromStorage(s), and
\* the enabledPlugins of a mounted usePlugins(s) the enabled part of its
\* plugins state; a plugin whose entry in s's map is false is in neither
\* result of the registry, and one that is disabled in another scope only is
\* included.
C20_EnabledPlugins ==
  \A s \in Scopes :
    LET list == loadFromStorage(localStorage, s)
        enabled == getEnabledPlugins(localStorage, s)
    IN /\ ~Threw(enabled)
       /\ EnabledPartOf(enabled.value, list)
       /\ \A name \in Names :
            LET included == \E i \in 1..Len(enabled.value) : enabled.value[i].name = name
            IN /\ EntryOf(localStorage, s, name) = Some(FALSE) => ~included
               /\ (/\ isRegistered(localStorage, name)
                   /\ EntryOf(localStorage, s, name) # Some(FALSE)) => included
       /\ facade[s].mounted =>
            /\ ~Threw(enabledPlugins(facade[s]))
            /\ EnabledPartOf(enabledPlugins(facade[s]).value, facade[s].plugins)

\* pii and echo are installed in that order and echo is disabled under "b"
\* only: the registry and the mounted hook of "default" give pii and echo in
\* that order, the registry gives pii alone for "b"
C20_Witness ==
  /\ NamesOf(loadFromStorage(localStorage, "default")) = <<"pii", "echo">>
  /\ EntryOf(localStorage, "b", "echo") = Some(FALSE)
  /\ NamesOf(getEnabledPlugins(localStorage, "default").value) = <<"pii", "echo">>
  /\ NamesOf(getEnabledPlugins(localStorage, "b").value) = <<"pii">>
  /\ facade["default"].mounted
  /\ NamesOf(enabledPlugins(facade["default"]).value) = <<"pii", "echo">>

(* ---------------- C15 ---------------- *)
\* the string holds a list of plugins that can be read
ReadableList(s) == s.t = "json"

\* the string holds an enablement map that can be read
ReadableMap(s) == s.t = "json" \/ s = Text("{}")

\* C15 as stated: loadFromStorage(s) does not throw, whatever strings the
\* installed-list key and s's enablement key hold; it returns the empty list
\* when the installed-list key holds nothing or no readable plugin list or
\* when there is no window, and lists every installed plugin as enabled when
\* s's enablement map cannot be read.
C15_Original ==
  IsDefined(result) =>
    LET s == Get(input)
        installedText == localStorage[PLUGINS_KEY]
        stateText == localStorage[getEnabledStateKey(s)]
        loaded == Get(result)
    IN /\ ~Threw(loaded)
       /\ (~windowDefined \/ ~ReadableList(installedText)) => loaded.value = <<>>
       /\ (windowDefined /\ ReadableList(installedText)) =>
            /\ NamesOf(loaded.value) = NamesOf(JSONparse(installedText))
            /\ ~ReadableMap(stateText) =>
                 \A i \in 1..Len(loaded.value) : loaded.value[i].enabled

(* ---------------- C21 ---------------- *)
\* C21: register, unregister, setEnabled and clear called with scope s leave
\* the string stored under the enablement key of every scope t # s as it
\* was; unregister(name, s) deletes s's entry for the name, keeps s's other
\* entries, and leaves the entry another scope holds for the name in place.
C21_OwnScopeOnly ==
  [][\A s \in Scopes :
       NotifyingStep(s) =>
         /\ \A t \in Scopes \ {s} :
              /\ localStorage'[getEnabledStateKey(t)]
                   = localStorage[getEnabledStateKey(t)]
              /\ \A name \in Names :
                   EntryOf(localStorage', t, name) = EntryOf(localStorage, t, name)
         /\ lastOp'.op = "unregister" =>
              /\ EntryOf(localStorage', s, lastOp'.name) = Undefined
              /\ \A other \in Names \ {lastOp'.name} :
                   EntryOf(localStorage', s, other) = EntryOf(localStorage, s, other)]_vars

\* echo has been unregistered from "default" while "b" held an entry for it:
\* echo is not installed, "default" holds no entry for it and "b" still does
C21_Witness ==
  /\ lastOp.op = "unregister" /\ lastOp.name = "echo" /\ lastOp.existed
  /\ lastOp.instanceId = "default"
  /\ ~isRegistered(localStorage, "echo")
  /\ EntryOf(localStorage, "default", "echo") = Undefined
  /\ EntryOf(localStorage, "b", "echo") = Some(FALSE)

(* ---------------- C22 ---------------- *)
\* C22 as stated: register of a name that is installed leaves the enabled
\* value every scope reports for it, the calling scope included, as it was.
C22_Original ==
  [][\A plugin \in Plugins, enabled \in BOOLEAN, s \in Scopes :
       (RegisterStep(plugin, enabled, s) /\ isRegistered(localStorage, plugin.name)) =>
         \A t \in Scopes :
           EnabledOf(loadFromStorage(localStorage', t), plugin.name)
             = EnabledOf(loadFromStorage(localStorage, t), plugin.name)]_vars

\* the version the stored record of a name carries
VersionOf(ls, name) ==
  LET installed == loadInstalledPlugins(ls)
  IN installed[findIndex(installed, name)].version

\* C22 amended: register of a name that is installed stores the new payload,
\* leaves the enabled value of every other scope as it was, and sets the
\* enabled value of the calling scope to the argument of the call.
C22_ReinstallSetsCallingScope ==
  [][\A plugin \in Plugins, enabled \in BOOLEAN, s \in Scopes :
       (RegisterStep(plugin, enabled, s) /\ isRegistered(localStorage, plugin.name)) =>
         /\ VersionOf(localStorage', plugin.name) = plugin.version
         /\ EntryOf(localStorage', s, plugin.name) = Some(enabled)
         /\ \A t \in Scopes \ {s} :
              /\ EntryOf(localStorage', t, plugin.name)
                   = EntryOf(localStorage, t, plugin.name)
              /\ EnabledOf(loadFromStorage(localStorage', t), plugin.name)
                   = EnabledOf(loadFromStorage(localStorage, t), plugin.name)]_vars

\* echo has been re-registered from "default" as 2.0.0 with enabled = FALSE
\* while "b" holds it disabled: "default" now reports it disabled
C22_Witness ==
  /\ lastOp.op = "register" /\ lastOp.name = "echo" /\ lastOp.existed
  /\ lastOp.instanceId = "default" /\ ~lastOp.enabled
  /\ VersionOf(localStorage, "echo") = "2.0.0"
  /\ EnabledOf(loadFromStorage(localStorage, "default"), "echo") = Some(FALSE)
  /\ EntryOf(localStorage, "b", "echo") = Some(FALSE)

(* ---------------- C23 ---------------- *)
\* the installedAt of the stored record of a name
InstalledAtOf(ls, name) ==
  LET installed == loadInstalledPlugins(ls)
  IN installed[findIndex(installed, name)].installedAt

\* C23 as stated: register of a name that is installed leaves the installedAt
\* of its record as the first install wrote it.
C23_Original ==
  [][\A plugin \in Plugins, enabled \in BOOLEAN, s \in Scopes :
       (RegisterStep(plugin, enabled, s) /\ isRegistered(localStorage, plugin.name)) =>
         InstalledAtOf(localStorage', plugin.name)
           = InstalledAtOf(localStorage, plugin.name)]_vars

(* ---------------- C29 ---------------- *)
\* how many times a callback occurs in a list of callbacks
Occurrences(cbs, cb) == Cardinality({i \in 1..Len(cbs) : cbs[i] = cb})

\* C29: the listeners of a scope hold a callback once however often it was
\* subscribed: onChange of a callback that is subscribed leaves the listeners
\* as they were, a change on scope s invokes each callback of s exactly once,
\* a call of any function onChange(cb, s) returned leaves cb out of s's
\* listeners whatever the other functions returned for the pair, and neither
\* onChange nor such a call on scope s touches the listeners of another scope.
C29_SetPerScope ==
  [][/\ \A cb \in Callbacks, s \in Scopes : Occurrences(listeners'[s], cb) <= 1
     /\ \A cb \in ClosureCallbacks, s \in Scopes :
          /\ OnChangeClosure(cb, s) =>
               /\ Occurrences(listeners'[s], cb) = 1
               /\ Occurrences(listeners[s], cb) = 1 => listeners' = listeners
               /\ \A t \in Scopes \ {s} : listeners'[t] = listeners[t]
          /\ \A n \in 1..MaxClosures :
               (closures'[<<cb, s, n>>] = "called" /\ CallClosure(cb, s, n)) =>
                 /\ Occurrences(listeners'[s], cb) = 0
                 /\ \A t \in Scopes \ {s} : listeners'[t] = listeners[t]
     /\ \A s \in Scopes :
          NotifyingStep(s) =>
            \A cb \in Callbacks :
              Occurrences(Invoked(lastOp'.log), cb) = Occurrences(listeners[s], cb)]_vars

\* cbA has been subscribed twice under "default" and twice under "b"; the
\* second function returned for "default" has been called and the first has
\* not: cbA is gone from "default", is still listed once under "b", and a
\* setEnabled on "b" has invoked it once
C29_Witness ==
  /\ closures[<<"cbA", "default", 1>>] = "held"
  /\ closures[<<"cbA", "default", 2>>] = "called"
  /\ closures[<<"cbA", "b", 1>>] = "held"
  /\ closures[<<"cbA", "b", 2>>] = "held"
  /\ listeners["default"] = <<>>
  /\ listeners["b"] = <<"cbA">>
  /\ lastOp.op = "setEnabled" /\ lastOp.instanceId = "b"
  /\ Invoked(lastOp.log) = <<"cbA">>

(* ---------------- C30 ---------------- *)
\* the storage holds what the call lastOp describes is to leave in it
Reflects(ls, op) ==
  CASE op.op = "register" ->
         /\ isRegistered(ls, op.name)
         /\ EntryOf(ls, op.instanceId, op.name) = Some(op.enabled)
    [] op.op = "unregister" ->
         /\ ~isRegistered(ls, op.name)
         /\ EntryOf(ls, op.instanceId, op.name) = Undefined
    [] op.op = "setEnabled" ->
         EntryOf(ls, op.instanceId, op.name) = Some(op.enabled)
    [] op.op = "clear" -> ls[getEnabledStateKey(op.instanceId)] = NoItem

\* the place of the first throwing callback in a list, 0 when none throws
FirstThrowing(cbs) ==
  IF \E i \in 1..Len(cbs) : cbs[i] \in ThrowingCallbacks
  THEN CHOOSE i \in 1..Len(cbs) :
         /\ cbs[i] \in ThrowingCallbacks
         /\ \A j \in 1..(i - 1) : cbs[j] \notin ThrowingCallbacks
  ELSE 0

\* C30: in a register, unregister, setEnabled or clear on scope s all storage
\* writes of the call come before the first subscriber is invoked, so the
\* storage the call leaves reflects the whole operation also when a
\* subscriber throws; the exception is the last thing the call does, and the
\* subscribers that follow the throwing one in s's set are not invoked.
C30_ThrowingSubscriber ==
  [][\A s \in Scopes :
       NotifyingStep(s) =>
         LET log == lastOp'.log
             cbs == listeners[s]
             first == FirstThrowing(cbs)
         IN /\ Cardinality({i \in DOMAIN log : log[i].ev \in {"setItem", "removeItem"}})
                 = WritesOf(lastOp'.op)
            /\ \A i, j \in DOMAIN log :
                 (log[i].ev \in {"setItem", "removeItem"}
                    /\ log[j].ev \in {"callback", "throw"}) => i < j
            /\ Reflects(localStorage', lastOp')
            /\ IF first = 0
               THEN /\ Invoked(log) = cbs
                    /\ \A i \in DOMAIN log : log[i].ev # "throw"
               ELSE /\ Invoked(log) = SubSeq(cbs, 1, first)
                    /\ log[Len(log)] = ThrowEvent("", cbs[first], s)
                    /\ \A i \in 1..(Len(log) - 1) : log[i].ev # "throw"]_vars

\* register on "default" with cbThrows subscribed before cbA: cbThrows was
\* invoked and threw, cbA was not invoked, and echo is installed and holds
\* the enabled value of the call
C30_Witness ==
  /\ lastOp.op = "register" /\ lastOp.instanceId = "default"
  /\ listeners["default"] = <<"cbThrows", "cbA">>
  /\ Invoked(lastOp.log) = <<"cbThrows">>
  /\ lastOp.log[Len(lastOp.log)].ev = "throw"
  /\ Reflects(localStorage, lastOp)

(* ---------------- C24 ---------------- *)
\* C24 as stated: a register or unregister in which a storage write throws
\* leaves the storage as it was before the call: the installed list and the
\* scope's enablement map are written together or not at all.
C24_Original ==
  [][\A s \in Scopes :
       (NotifyingStep(s) /\ lastOp'.op \in {"register", "unregister"}
          /\ Raised([log |-> lastOp'.log]))
         => localStorage' = localStorage]_vars

(* ---------------- C25 ---------------- *)
\* C25 as stated: with a window, register(p, e, s) called while the
\* installed-list key holds nothing or no readable plugin list does not
\* throw, and leaves exactly p installed, p listed for s with enabled = e,
\* and well-formed JSON under the installed-list key and under s's key.
C25_Original ==
  [][\A plugin \in Plugins, enabled \in BOOLEAN, s \in Scopes :
       (RegisterStep(plugin, enabled, s) /\ windowDefined
          /\ ~ReadableList(localStorage[PLUGINS_KEY])) =>
         /\ ~Raised([log |-> lastOp'.log])
         /\ localStorage'[PLUGINS_KEY].t = "json"
         /\ localStorage'[getEnabledStateKey(s)].t = "json"
         /\ NamesOf(loadInstalledPlugins(localStorage')) = <<plugin.name>>
         /\ EnabledOf(loadFromStorage(localStorage', s), plugin.name)
              = Some(enabled)]_vars

(* ---------------- C26 ---------------- *)
\* a step that is setEnabled(name, enabled, s) called in another tab
OtherTabSetEnabledStep(pluginName, enabled, s) ==
  /\ lastOp' = lastOp
  /\ EntryOf(localStorage', s, pluginName) = Some(enabled)
  /\ OtherTabSetEnabled(pluginName, enabled, s)

\* C26 as stated: a setEnabled made in another tab on scope s's enablement
\* key leaves the value of that later setItem in storage and leaves the
\* plugins state of this tab's usePlugins(s) as it was; once the StorageEvent
\* for that key is dispatched in this tab, a mounted usePlugins(s) agrees
\* with storage.
C26_Original ==
  [][/\ \A s \in Scopes, enabled \in BOOLEAN :
          OtherTabSetEnabledStep(FacadePlugin.name, enabled, s) =>
            /\ facade' = facade
            /\ loadEnabledState(localStorage', s)
                 = Assign(loadEnabledState(localStorage, s), FacadePlugin.name, enabled)
     /\ \A s \in Scopes :
          (/\ HandleStorageStep
           /\ facade[s].mounted
           /\ Head(events) = getEnabledStateKey(s)) =>
             FacadeAgrees(facade'[s], localStorage', s)]_vars

(* ---------------- C27 ---------------- *)
\* C27 as stated: while the plugins stay enabled, no client instance has
\* use() called twice for the same plugin name, whatever passes of the
\* registration effect overlap, and a plugin with neither executors nor
\* hooks is passed to no client.
C27_Original ==
  \A id \in 1..MaxClients, plugin \in ProviderPlugins :
    /\ used[<<id, plugin.name>>] # "again"
    /\ plugin.name = "pii" => used[<<id, plugin.name>>] = "never"

(* ---------------- C28 ---------------- *)
\* C28 as stated: when a client exists, the registration effect has run for
\* it and for the enabledPlugins of the moment, and no pass started for it
\* is suspended, use() has been called on that client instance for every
\* enabled plugin that has executors or hooks.
C28_Original ==
  (/\ client.ready
   /\ effectDeps = Some(Deps)
   /\ \A k \in 1..Len(passes) : passes[k].client # client.id) =>
    \A i \in 1..Len(providerEnabledPlugins) :
      Passable(providerEnabledPlugins[i]) =>
        used[<<client.id, providerEnabledPlugins[i].name>>] # "never"

====
